---- MODULE Spec2Model ----
(***************************************************************************)
(* A model of rain: the command line entry point (cli/main.py), the        *)
(* collector's orchestration of the seven section probes                   *)
(* (core/robust_collector.py) and the live monitor loop (core/display.py); *)
(* and, called directly, the process, disk and GPU probes, the helpers of  *)
(* utils/helpers.py, the export operations of the display manager and the  *)
(* loading of the configuration (core/config.py).                          *)
(***************************************************************************)
EXTENDS Integers, Sequences, FiniteSets, TLC

VARIABLES
    pc,               \* position of the run
    entry,            \* who started the run: "cli", "collector" or "monitor"
    section,          \* the -s options, in command line order, until main reads them
    live,             \* the --live flag
    output_mode,      \* "display", "json" (--json) or "save" (--save)
    config_file,      \* the configuration file found on the host
    app_config,       \* the Config object
    sections_to_show, \* the list handed to the collector and the renderer
    all_chosen,       \* the list main chose held "all"
    idx,              \* position of collect_all_data's loop in its list
    data,             \* the mapping collect_all_data builds
    calls,            \* probes invoked by the current collect_all_data call
    nfail,            \* probes that raised in the current collect_all_data call
    probed,           \* a probe was invoked in this run
    active,           \* collect_all_data calls in progress
    output,           \* what the renderer was last given
    tick_odd,         \* an odd number of live ticks has started
    tick_exc,         \* what the current live tick raised
    err_logged,       \* the current tick's exception was logged
    paused,           \* seconds the live loop slept since the last tick's work
    raised,           \* the exception that reached the caller of the run
    interrupted,      \* a KeyboardInterrupt was delivered
    exit_code,        \* the process's exit code, NoExit while it runs
    call,             \* the function a caller invoked directly, with its arguments
    host,             \* what the host's facilities answer during that call
    result,           \* what that call returned or raised, NoResult before it ends
    step,             \* the probe in progress: its next external call, its values
    blocked,          \* the external call the collector is waiting in
    heap,             \* the result mappings collect_all_data has created, by identity
    held,             \* the mappings callers got back, with what they held then
    cache             \* the collector's _cache and _cache_timestamps

vars == <<pc, entry, section, live, output_mode, config_file, app_config,
          sections_to_show, all_chosen, idx, data, calls, nfail, probed, active, output,
          tick_odd, tick_exc, err_logged, paused, raised, interrupted, exit_code,
          call, host, result, step, blocked, heap, held, cache>>

\* What the run was started with.
args == <<entry, live, output_mode, config_file, call, host>>

\* The locals of collect_all_data.
collectVars == <<idx, data, calls, nfail>>

\* The collector's waiting and the objects of repeated calls.
callVars == <<step, blocked, heap, held, cache>>

\* The state of the current live tick.
tickVars == <<tick_odd, tick_exc, err_logged>>

----------------------------------------------------------------------------
\* Bounds of the model.

\* Longest list of section names given to the program.
MaxLen == 2

\* Most probes that raise within one collect_all_data call.
MaxFail == 1

----------------------------------------------------------------------------
\* Program constants.

\* The list "all" expands to.
AllSections ==
    <<"system", "hardware", "network", "processes", "security", "sensors", "python">>

\* The keys of section_collectors.
section_collectors == {AllSections[i] : i \in 1..Len(AllSections)}

\* The values click.Choice accepts for -s.
SectionChoices == section_collectors \cup {"all"}

\* Names a caller or a configuration file can give that are no section.
UnknownNames == {"invalid_section"}

Names == SectionChoices \cup UnknownNames

\* Config.default_sections, Config.live_update_interval.
ConfigDefaults ==
    [default_sections |-> <<"system", "hardware", "network">>,
     live_update_interval |-> 2]

\* time.sleep(1.0) after a failed tick.
BackoffPause == 1

\* The interval run_live_monitor sleeps when it has no configuration.
DefaultInterval == 2

\* exit code of click for a usage error (a value click.Choice rejects).
ClickUsageExit == 2

NoExit == 0 - 1

RainErrors == {"RainError", "ConfigError", "CollectionError", "DisplayError"}

----------------------------------------------------------------------------
\* Inputs.

SeqsUpTo(S, n) == UNION {[1..k -> S] : k \in 0..n}

Range(s) == {s[i] : i \in 1..Len(s)}

\* default_sections values a configuration file can hold.
ConfigSectionLists ==
    {<<"all">>, <<"invalid_section", "system">>}

\* The JSON objects a configuration file can hold.
FileDicts ==
    {[default_sections |-> l] : l \in ConfigSectionLists}
        \cup {[live_update_interval |-> 5], [live_update_interval |-> 0]}

ConfigFiles ==
    {[kind |-> "missing"], [kind |-> "corrupt"]}
        \cup {[kind |-> "json", content |-> d] : d \in FileDicts}

\* What one probe invocation can do, short of being interrupted.
ProbeOutcomes == {"return", "CollectionError", "Exception"}

EmptyMap == [x \in {} |-> x]

NoOutput == [kind |-> "none"]

\* No direct call has ended.
NoResult == [kind |-> "none"]

\* No probe is in progress.
NoStep == [at |-> 0, got |-> <<>>]

\* The collector waits in no external call.
NotBlocked == [op |-> "none"]

\* self._cache = {} and self._cache_timestamps = {}
NewCache == [_cache |-> EmptyMap, _cache_timestamps |-> EmptyMap]

----------------------------------------------------------------------------
\* Exceptions and handlers.

\* The exception a probe raises: its type and its message.
ProbeException(s, outcome) ==
    [type |-> outcome, msg |-> <<"Failed to collect", s, outcome>>]

\* str(e).
Str(e) == e.msg

\* The record a probe returns.
ProbeRecord(s) == [kind |-> "record", of |-> s]

\* SectionResult, storing the exception's type name instead of its message.
SectionResult_TypeName(s, outcome) ==
    IF outcome = "return"
      THEN ProbeRecord(s)
      ELSE [kind |-> "error", error |-> <<ProbeException(s, outcome).type>>]

\* data[section] after the try/except around one probe invocation.
SectionResult(s, outcome) ==
    IF outcome = "return"
      THEN ProbeRecord(s)
      ELSE [kind |-> "error", error |-> Str(ProbeException(s, outcome))]

\* MainExit, ending with exit code 0 after an application error.
MainExit_ZeroForRainError(exc) ==
    CASE exc = "KeyboardInterrupt" -> 0
      [] exc \in RainErrors -> 0
      [] OTHER -> 1

\* The except clauses of main: the exit code for an exception leaving the try.
MainExit(exc) ==
    CASE exc = "KeyboardInterrupt" -> 0
      [] exc \in RainErrors -> 1
      [] OTHER -> 1

\* An exception leaves the outermost function of the run.
Propagate(exc) ==
    /\ raised' = exc
    /\ IF entry = "cli"
         THEN /\ exit_code' = MainExit(exc)
              /\ pc' = "exited"
         ELSE /\ pc' = "raised"
              /\ UNCHANGED exit_code

\* except Exception as e: raise DisplayError(...), in display_all, output_json
\* and save_to_file. A KeyboardInterrupt is no Exception and passes.
DisplayHandler(exc) ==
    IF exc = "KeyboardInterrupt" THEN exc ELSE "DisplayError"

\* LiveOuterHandler, written as a bare except: it catches the interrupt too.
LiveOuterHandler_CatchesAll(exc) == "DisplayError"

\* The outer except clause of run_live_monitor.
LiveOuterHandler(exc) ==
    IF exc = "KeyboardInterrupt" THEN exc ELSE "DisplayError"

\* LiveNext, sleeping the interval before the layout is updated.
LiveNext_SleepBeforeRender(pos, exc) ==
    IF pos = "live_backoff"
      THEN IF exc = "none" THEN "call_collect" ELSE "propagate"
      ELSE CASE exc = "KeyboardInterrupt" -> "break"
             [] exc = "none" /\ pos \in {"call_collect"} -> "collect"
             [] exc = "none" /\ pos = "collect" -> "live_sleep"
             [] exc = "none" /\ pos = "live_sleep" -> "live_render"
             [] exc = "none" /\ pos = "live_render" -> "call_collect"
             [] OTHER -> "live_backoff"

\* LiveNext without the inner except Exception clause: a tick's exception
\* leaves the loop.
LiveNext_ErrorEndsLoop(pos, exc) ==
    IF pos = "live_backoff"
      THEN IF exc = "none" THEN "call_collect" ELSE "propagate"
      ELSE CASE exc = "KeyboardInterrupt" -> "break"
             [] exc = "none" /\ pos \in {"call_collect"} -> "collect"
             [] exc = "none" /\ pos = "collect" -> "live_render"
             [] exc = "none" /\ pos = "live_render" -> "live_sleep"
             [] exc = "none" /\ pos = "live_sleep" -> "call_collect"
             [] OTHER -> "propagate"

\* LiveNext, with continue where the interrupt's handler has break.
LiveNext_InterruptContinues(pos, exc) ==
    IF pos = "live_backoff"
      THEN IF exc = "none" THEN "call_collect" ELSE "propagate"
      ELSE CASE exc = "KeyboardInterrupt" -> "call_collect"
             [] exc = "none" /\ pos \in {"call_collect"} -> "collect"
             [] exc = "none" /\ pos = "collect" -> "live_render"
             [] exc = "none" /\ pos = "live_render" -> "live_sleep"
             [] exc = "none" /\ pos = "live_sleep" -> "call_collect"
             [] OTHER -> "live_backoff"

\* The body of run_live_monitor's loop: where control goes from position pos
\* when the statement there ends with exc ("none": it completes). "break"
\* leaves the loop and the function returns; "propagate" leaves the loop with
\* the exception still raised.
LiveNext(pos, exc) ==
    IF pos = "live_backoff"
      THEN IF exc = "none" THEN "call_collect" ELSE "propagate"
      ELSE CASE exc = "KeyboardInterrupt" -> "break"
             [] exc = "none" /\ pos \in {"call_collect"} -> "collect"
             [] exc = "none" /\ pos = "collect" -> "live_render"
             [] exc = "none" /\ pos = "live_render" -> "live_sleep"
             [] exc = "none" /\ pos = "live_sleep" -> "call_collect"
             [] OTHER -> "live_backoff"

\* Positions inside the loop of run_live_monitor.
LoopPcs == {"call_collect", "collect", "live_render", "live_sleep", "live_backoff"}

\* Where the caller of run_live_monitor continues after it returns.
AfterLive == IF entry = "cli" THEN "finish" ELSE "returned"

\* Control of the live loop moves to target; exc is what was raised, if anything.
LiveGoto(target, exc) ==
    CASE target = "break" ->
           /\ pc' = AfterLive
           /\ UNCHANGED <<raised, exit_code>>
      [] target = "propagate" -> Propagate(LiveOuterHandler(exc))
      [] OTHER ->
           /\ pc' = target
           /\ UNCHANGED <<raised, exit_code>>

----------------------------------------------------------------------------
\* The collector.

Put(d, k, v) == [x \in DOMAIN d \cup {k} |-> IF x = k THEN v ELSE d[x]]

\* CollectOne, leaving out the section whose probe raised.
CollectOne_DropsFailed(d, s, outcome) ==
    IF s \in section_collectors /\ outcome = "return"
      THEN Put(d, s, SectionResult(s, outcome))
      ELSE d

\* CollectOne, reporting a name that has no probe as a failed section.
CollectOne_KeyForUnknown(d, s, outcome) ==
    IF s \in section_collectors
      THEN Put(d, s, SectionResult(s, outcome))
      ELSE Put(d, s, [kind |-> "error", error |-> <<"Unknown section", s>>])

\* One iteration of collect_all_data's loop on the mapping d: name s, whose
\* probe (when it has one) does outcome.
CollectOne(d, s, outcome) ==
    IF s \in section_collectors
      THEN Put(d, s, SectionResult(s, outcome))
      ELSE d

\* collect_all_data is called: data = {}.
CollectCall ==
    /\ pc = "call_collect"
    /\ data' = EmptyMap
    /\ idx' = 1
    /\ calls' = <<>>
    /\ nfail' = 0
    /\ active' = active + 1
    /\ paused' = 0
    /\ IF live
         THEN /\ tick_odd' = ~tick_odd
              /\ tick_exc' = "none"
              /\ err_logged' = FALSE
              /\ pc' = LiveNext("call_collect", "none")
         ELSE /\ pc' = "collect"
              /\ UNCHANGED <<tick_odd, tick_exc, err_logged>>
    /\ UNCHANGED <<args, result, callVars, section, app_config, sections_to_show, all_chosen, probed, output,
                   raised, interrupted, exit_code>>

\* for section in sections: one iteration.
CollectStep ==
    /\ pc = "collect"
    /\ idx <= Len(sections_to_show)
    /\ LET s == sections_to_show[idx] IN
         IF s \in section_collectors
           THEN \E outcome \in ProbeOutcomes :
                  /\ outcome = "return" \/ nfail < MaxFail
                  /\ data' = CollectOne(data, s, outcome)
                  /\ calls' = Append(calls, [section |-> s, outcome |-> outcome])
                  /\ nfail' = nfail + (IF outcome = "return" THEN 0 ELSE 1)
                  /\ probed' = TRUE
           ELSE /\ data' = CollectOne(data, s, "return")
                /\ UNCHANGED <<calls, nfail, probed>>
    /\ idx' = idx + 1
    /\ UNCHANGED <<args, result, callVars, tickVars, pc, section, app_config, sections_to_show, all_chosen,
                   active, output, paused, raised, interrupted, exit_code>>

\* return data.
CollectReturn ==
    /\ pc = "collect"
    /\ idx > Len(sections_to_show)
    /\ active' = active - 1
    /\ pc' = IF entry = "collector" THEN "returned"
             ELSE IF live THEN LiveNext("collect", "none")
             ELSE "render"
    /\ UNCHANGED <<args, result, callVars, collectVars, tickVars, section, app_config,
                   sections_to_show, all_chosen, probed, output, paused, raised,
                   interrupted, exit_code>>

----------------------------------------------------------------------------
\* The command line entry point.

\* Config with no configuration object (config=None).
NoConfig == [kind |-> "None"]

\* _load_config: every key of the file that is an attribute is set.
LoadDict(cfg, d) ==
    [k \in DOMAIN cfg |-> IF k \in DOMAIN d THEN d[k] ELSE cfg[k]]

\* list(section) if section else app_config.default_sections
Chosen(sec, cfg) == IF sec # <<>> THEN sec ELSE cfg.default_sections

\* SectionsToShow, expanding "all" only when it is the whole list.
SectionsToShow_AllAloneOnly(sec, cfg) ==
    IF Chosen(sec, cfg) = <<"all">> THEN AllSections ELSE Chosen(sec, cfg)

\* "Determine sections to display" of main.
SectionsToShow(sec, cfg) ==
    IF "all" \in Range(Chosen(sec, cfg)) THEN AllSections ELSE Chosen(sec, cfg)

\* The sections of secs that are keys of d, in the order of secs.
Present(d, secs) ==
    LET In(x) == x \in DOMAIN d IN SelectSeq(secs, In)

\* What display_all, output_json or save_to_file is given and puts out.
RenderOutput(mode, d, secs) ==
    IF mode = "json"
      THEN [kind |-> mode, keys |-> DOMAIN d]
      ELSE [kind |-> mode, sections |-> secs, shown |-> Present(d, secs)]

\* ClickAccepts for a -s option declared without its click.Choice type.
ClickAccepts_AnyString(sec) == Range(sec) \subseteq Names

\* click.Choice on every -s value.
ClickAccepts(sec) == Range(sec) \subseteq SectionChoices

\* click parses the command line: a -s value outside the choices is a usage
\* error and main's body does not run.
ClickParse ==
    /\ pc = "parse"
    /\ IF ClickAccepts(section)
         THEN /\ pc' = "load_config"
              /\ UNCHANGED exit_code
         ELSE /\ pc' = "exited"
              /\ exit_code' = ClickUsageExit
    /\ UNCHANGED <<args, result, callVars, collectVars, tickVars, section, app_config,
                   sections_to_show, all_chosen, probed, active, output, paused, raised,
                   interrupted>>

\* app_config = Config.create(config_path=config).
LoadConfig ==
    /\ pc = "load_config"
    /\ CASE config_file.kind = "missing" ->
              /\ app_config' = ConfigDefaults
              /\ pc' = "select"
              /\ UNCHANGED <<raised, exit_code>>
         [] config_file.kind = "corrupt" ->
              /\ Propagate("ConfigError")
              /\ UNCHANGED app_config
         [] OTHER ->
              /\ app_config' = LoadDict(ConfigDefaults, config_file.content)
              /\ pc' = "select"
              /\ UNCHANGED <<raised, exit_code>>
    /\ UNCHANGED <<args, result, callVars, collectVars, tickVars, section, sections_to_show, all_chosen,
                   probed, active, output, paused, interrupted>>

\* sections_to_show is determined and the collector and display manager made.
\* main reads the -s options here and never again.
SelectSections ==
    /\ pc = "select"
    /\ sections_to_show' = SectionsToShow(section, app_config)
    /\ section' = <<>>
    /\ all_chosen' = ("all" \in Range(Chosen(section, app_config)))
    /\ pc' = IF live THEN "live_init" ELSE "call_collect"
    /\ UNCHANGED <<args, result, callVars, collectVars, tickVars, app_config, probed, active,
                   output, paused, raised, interrupted, exit_code>>

\* output_json, save_to_file or display_all, by the flags.
Render ==
    /\ pc = "render"
    /\ \E outcome \in {"none", "Exception"} :
         IF outcome = "none"
           THEN /\ output' = RenderOutput(output_mode, data, sections_to_show)
                /\ pc' = "finish"
                /\ UNCHANGED <<raised, exit_code>>
           ELSE /\ Propagate(DisplayHandler(outcome))
                /\ UNCHANGED output
    /\ UNCHANGED <<args, result, callVars, collectVars, tickVars, section, app_config,
                   sections_to_show, all_chosen, probed, active, paused, interrupted>>

\* main returns: the process ends with exit code 0.
Finish ==
    /\ pc = "finish"
    /\ exit_code' = 0
    /\ pc' = "exited"
    /\ UNCHANGED <<args, result, callVars, collectVars, tickVars, section, app_config,
                   sections_to_show, all_chosen, probed, active, output, paused, raised,
                   interrupted>>

----------------------------------------------------------------------------
\* The live monitor.

\* sections[:3]: the live layout shows at most 3 sections side by side.
LivePanels == 3

\* self.config.live_update_interval if self.config else 2.0
Interval(cfg) ==
    IF cfg = NoConfig THEN DefaultInterval ELSE cfg.live_update_interval

\* with Live(self._create_live_layout(), ...) as live: entered, or it raises.
LiveInit ==
    /\ pc = "live_init"
    /\ \E outcome \in {"none", "Exception"} :
         IF outcome = "none"
           THEN /\ pc' = "call_collect"
                /\ UNCHANGED <<raised, exit_code>>
           ELSE Propagate(LiveOuterHandler(outcome))
    /\ UNCHANGED <<args, result, callVars, collectVars, tickVars, section, app_config,
                   sections_to_show, all_chosen, probed, active, output, paused,
                   interrupted>>

\* layout = self._create_live_layout_with_data(data, sections);
\* live.update(layout). An exception is logged by the inner handler.
LiveRender ==
    /\ pc = "live_render"
    /\ \E outcome \in {"none", "Exception"} :
         /\ tick_exc' = outcome
         /\ err_logged' = (outcome # "none")
         /\ output' = IF outcome = "none"
                        THEN [kind |-> "live", sections |-> sections_to_show,
                              shown |-> Present(data, SubSeq(sections_to_show, 1,
                                   IF Len(sections_to_show) < LivePanels
                                     THEN Len(sections_to_show) ELSE LivePanels))]
                        ELSE output
         /\ LiveGoto(LiveNext("live_render", outcome), outcome)
    /\ UNCHANGED <<args, result, callVars, collectVars, section, app_config, sections_to_show, all_chosen,
                   probed, active, tick_odd, paused, interrupted>>

\* time.sleep(interval) at the end of a tick.
LiveSleep ==
    /\ pc = "live_sleep"
    /\ paused' = Interval(app_config)
    /\ LiveGoto(LiveNext("live_sleep", "none"), "none")
    /\ UNCHANGED <<args, result, callVars, collectVars, tickVars, section, app_config,
                   sections_to_show, all_chosen, probed, active, output, interrupted>>

\* time.sleep(1.0) in the inner handler, after a failed tick.
LiveBackoff ==
    /\ pc = "live_backoff"
    /\ paused' = BackoffPause
    /\ LiveGoto(LiveNext("live_backoff", "none"), "none")
    /\ UNCHANGED <<args, result, callVars, collectVars, tickVars, section, app_config,
                   sections_to_show, all_chosen, probed, active, output, interrupted>>

----------------------------------------------------------------------------
\* The user's interrupt.

\* Positions at which a KeyboardInterrupt can be delivered to the run: inside
\* main's try block, or inside the function a caller called directly.
InterruptiblePcs ==
    {"load_config", "select", "call_collect", "collect", "render", "finish",
     "live_init", "live_render", "live_sleep", "live_backoff"}

\* A KeyboardInterrupt is raised at the current position.
Interrupt ==
    /\ pc \in InterruptiblePcs
    /\ interrupted' = TRUE
    /\ active' = IF pc = "collect" THEN active - 1 ELSE active
    /\ IF live /\ pc \in LoopPcs
         THEN /\ tick_exc' = "KeyboardInterrupt"
              /\ LiveGoto(LiveNext(pc, "KeyboardInterrupt"), "KeyboardInterrupt")
         ELSE /\ UNCHANGED tick_exc
              /\ IF pc = "live_init"
                   THEN Propagate(LiveOuterHandler("KeyboardInterrupt"))
                   ELSE IF pc = "render"
                          THEN Propagate(DisplayHandler("KeyboardInterrupt"))
                          ELSE Propagate("KeyboardInterrupt")
    /\ UNCHANGED <<args, result, callVars, collectVars, section, app_config, sections_to_show, all_chosen,
                   probed, output, tick_odd, err_logged, paused>>

----------------------------------------------------------------------------
\* Specifications.

InitCommon ==
    /\ all_chosen = FALSE
    /\ idx = 0
    /\ data = EmptyMap
    /\ calls = <<>>
    /\ nfail = 0
    /\ probed = FALSE
    /\ active = 0
    /\ output = NoOutput
    /\ tick_odd = FALSE
    /\ tick_exc = "none"
    /\ err_logged = FALSE
    /\ paused = 0
    /\ raised = "none"
    /\ interrupted = FALSE
    /\ exit_code = NoExit
    /\ step = NoStep
    /\ blocked = NotBlocked
    /\ heap = <<>>
    /\ held = <<>>
    /\ cache = NewCache

\* No function is called directly: the run is the program's or a whole
\* operation's.
NoCall ==
    /\ call = [fn |-> "none"]
    /\ host = [kind |-> "none"]
    /\ result = NoResult

\* The program is started from the command line.
Init ==
    /\ pc = "parse"
    /\ entry = "cli"
    /\ section \in SeqsUpTo(Names, MaxLen)
    /\ live \in BOOLEAN
    /\ output_mode \in {"display", "json", "save"}
    /\ config_file \in ConfigFiles
    /\ app_config = ConfigDefaults
    /\ sections_to_show = <<>>
    /\ InitCommon
    /\ NoCall

Next ==
    \/ ClickParse
    \/ LoadConfig
    \/ SelectSections
    \/ CollectCall
    \/ CollectStep
    \/ CollectReturn
    \/ Render
    \/ Finish
    \/ LiveInit
    \/ LiveRender
    \/ LiveSleep
    \/ LiveBackoff
    \/ Interrupt

Spec == Init /\ [][Next]_vars

\* A caller calls collect_all_data(sections) on a collector.
InitCollector ==
    /\ pc = "call_collect"
    /\ entry = "collector"
    /\ section = <<>>
    /\ live = FALSE
    /\ output_mode = "display"
    /\ config_file = [kind |-> "missing"]
    /\ app_config \in {NoConfig, ConfigDefaults}
    /\ sections_to_show \in SeqsUpTo(Names, MaxLen)
    /\ InitCommon
    /\ NoCall

NextCollector ==
    \/ CollectCall
    \/ CollectStep
    \/ CollectReturn
    \/ Interrupt

SpecCollector == InitCollector /\ [][NextCollector]_vars

\* A caller calls run_live_monitor(collector, sections) on a display manager.
InitMonitor ==
    /\ pc = "live_init"
    /\ entry = "monitor"
    /\ section = <<>>
    /\ live = TRUE
    /\ output_mode = "display"
    /\ config_file = [kind |-> "missing"]
    /\ app_config \in {NoConfig, ConfigDefaults}
    /\ sections_to_show \in SeqsUpTo(Names, MaxLen)
    /\ InitCommon
    /\ NoCall

\* The steps the program takes by itself.
ProgramStep ==
    \/ LiveInit
    \/ CollectCall
    \/ CollectStep
    \/ CollectReturn
    \/ LiveRender
    \/ LiveSleep
    \/ LiveBackoff

NextMonitor == ProgramStep \/ Interrupt

\* The program keeps running while it is not interrupted; whether and when an
\* interrupt comes is the user's choice.
SpecMonitor == InitMonitor /\ [][NextMonitor]_vars /\ WF_vars(ProgramStep)

----------------------------------------------------------------------------
\* Properties of collect_all_data, checked under SpecCollector.

\* The names of the list s that have a probe, in the order of s.
Known(s) ==
    LET HasProbe(x) == x \in section_collectors IN SelectSeq(s, HasProbe)

\* The sections whose probes were invoked, in the order of invocation.
Probed == [i \in 1..Len(calls) |-> calls[i].section]

\* What the try/except around a probe must leave in data for the invocation c.
Expected(c) ==
    IF c.outcome = "return"
      THEN [kind |-> "record", of |-> c.section]
      ELSE [kind |-> "error",
            error |-> <<"Failed to collect", c.section, c.outcome>>]

\* The mapping a sequence of probe invocations builds, later ones overwriting.
RECURSIVE Replay(_)
Replay(cs) ==
    IF cs = <<>>
      THEN EmptyMap
      ELSE LET c == cs[Len(cs)]
               before == Replay(SubSeq(cs, 1, Len(cs) - 1))
           IN  [x \in DOMAIN before \cup {c.section} |->
                  IF x = c.section THEN Expected(c) ELSE before[x]]

\* C1: for a list of valid section names, whatever the probes do, the mapping
\* collect_all_data returns has exactly the requested names as its keys.
C1_KeysAreTheRequestedSections ==
    (pc = "returned" /\ Range(sections_to_show) \subseteq section_collectors)
        => DOMAIN data = Range(sections_to_show)

\* Two different valid sections were requested, one probe raised, and the
\* call returned a mapping with both keys.
C1_Witness ==
    /\ pc = "returned"
    /\ Len(sections_to_show) = 2
    /\ sections_to_show[1] # sections_to_show[2]
    /\ Range(sections_to_show) \subseteq section_collectors
    /\ nfail = 1
    /\ DOMAIN data = Range(sections_to_show)

\* C2: a probe that raises does not make collect_all_data raise; the section's
\* value is {"error": <the exception's message>} and every other section
\* holds what its own probe returned.
C2_FailureIsIsolated ==
    /\ raised # "none" => interrupted
    /\ \A i \in 1..Len(calls) :
         (\A j \in (i + 1)..Len(calls) : calls[j].section # calls[i].section)
             => /\ calls[i].section \in DOMAIN data
                /\ data[calls[i].section] = Expected(calls[i])
    /\ pc = "returned" => Len(calls) = Len(Known(sections_to_show))

\* A call returned with one section an error value and another a record.
C2_Witness ==
    /\ pc = "returned"
    /\ raised = "none"
    /\ \E s, u \in DOMAIN data :
         /\ data[s].kind = "error"
         /\ data[u].kind = "record"

\* C3: a name that is no section is ignored: no probe is invoked for it, it
\* gets no key, nothing is raised, and the result is the one the same probe
\* outcomes give for the list without it.
C3_UnknownNameIsIgnored ==
    /\ \A i \in 1..Len(calls) : calls[i].section \in section_collectors
    /\ DOMAIN data \subseteq section_collectors
    /\ raised # "none" => interrupted
    /\ pc = "returned"
         => /\ Probed = Known(sections_to_show)
            /\ data = Replay(calls)

\* A call with an unknown name and a valid one returned the valid one only.
C3_Witness ==
    /\ pc = "returned"
    /\ \E i, j \in 1..Len(sections_to_show) :
         /\ sections_to_show[i] \notin section_collectors
         /\ sections_to_show[j] \in section_collectors
    /\ DOMAIN data = Range(sections_to_show) \cap section_collectors
    /\ raised = "none"

----------------------------------------------------------------------------
\* Properties of the command line run, checked under Spec.

\* The seven sections, in the order main lists them.
Seven ==
    <<"system", "hardware", "network", "processes", "security", "sensors", "python">>

\* C4: when the list main chooses (the -s options, or the configuration's
\* default sections without -s) holds "all", the collector and the renderer
\* are handed exactly the seven sections, each once, whatever else is listed.
C4_AllExpandsToTheSevenSections ==
    all_chosen
        => /\ sections_to_show = Seven
           /\ pc \in {"render", "live_render"} => Probed = Seven
           /\ output.kind \in {"display", "save", "live"} => output.sections = Seven
           /\ output.kind = "json" => output.keys = Range(Seven)

\* A run whose list held "all" collected and displayed the seven sections.
C4_Witness ==
    /\ all_chosen
    /\ pc = "finish"
    /\ Probed = Seven
    /\ output.kind = "display"
    /\ output.sections = Seven
    /\ output.shown = Seven

\* A -s value click.Choice does not list is still on the command line.
HasInvalidOption ==
    \E i \in 1..Len(section) :
        section[i] \notin {"system", "hardware", "network", "processes",
                           "security", "sensors", "python", "all"}

\* C5: a run with a -s value outside the choices ends with a non-zero exit
\* code, and no probe is invoked in it.
C5_InvalidSectionIsRejected ==
    HasInvalidOption
        => /\ pc \in {"parse", "exited"}
           /\ ~probed
           /\ active = 0
           /\ pc = "exited" => exit_code \notin {0, NoExit}

\* A run given an invalid -s value beside a valid one has ended.
C5_Witness ==
    /\ pc = "exited"
    /\ HasInvalidOption
    /\ \E i \in 1..Len(section) : section[i] \in section_collectors
    /\ exit_code # 0
    /\ ~probed

\* C6: an application error raised by configuration loading, collection or
\* rendering/export ends the run with a non-zero exit code; exit code 0 means
\* the run completed normally or the user cancelled it.
C6_ErrorsGiveNonZeroExit ==
    pc = "exited"
        => /\ raised \in RainErrors \cup {"Exception"} => exit_code \notin {0, NoExit}
           /\ exit_code = 0 => raised \in {"none", "KeyboardInterrupt"}
           /\ raised = "KeyboardInterrupt" => interrupted
           /\ (config_file.kind = "corrupt" /\ ~HasInvalidOption /\ ~interrupted)
                => raised = "ConfigError" /\ exit_code \notin {0, NoExit}

\* save_to_file failed and the run ended with a non-zero exit code.
C6_Witness ==
    /\ pc = "exited"
    /\ output_mode = "save"
    /\ raised = "DisplayError"
    /\ exit_code = 1

\* C7: a KeyboardInterrupt delivered during configuration load, collection,
\* rendering, or a live tick's collection, render, sleep or backoff pause ends
\* the run with exit code 0 and is never turned into an error.
C7_InterruptExitsZero ==
    interrupted
        => /\ pc \in {"finish", "exited"}
           /\ raised \in {"none", "KeyboardInterrupt"}
           /\ pc = "exited" => exit_code = 0

\* A live run was interrupted in the backoff pause after a failed tick and
\* ended with exit code 0.
C7_Witness ==
    /\ pc = "exited"
    /\ live
    /\ interrupted
    /\ err_logged
    /\ paused = 0
    /\ raised = "KeyboardInterrupt"
    /\ exit_code = 0

----------------------------------------------------------------------------
\* Properties of the live monitor, checked under SpecMonitor.

\* The order of the steps of a tick, as a condition on every step of the run.
TickOrder ==
    /\ (pc' = "collect" /\ pc # "collect") => (pc = "call_collect" /\ active = 0)
    /\ (pc' = "call_collect" /\ pc # "call_collect")
         => pc \in {"live_init", "live_sleep", "live_backoff"}
    /\ (pc' = "live_render" /\ pc # "live_render")
         => (pc = "collect" /\ idx > Len(sections_to_show))
    /\ (pc' = "live_sleep" /\ pc # "live_sleep")
         => (pc = "live_render" /\ tick_exc' = "none" /\ output'.kind = "live")
    /\ (pc = "live_sleep" /\ pc' = "call_collect")
         => paused' = Interval(app_config)

\* C8: a live tick runs the collection, then the layout update, then the
\* interval sleep; the next collection starts only after the previous
\* collection and render are over, and at most one collection is in progress.
C8_TicksDoNotOverlap ==
    /\ [][TickOrder]_vars
    /\ [](active <= 1 /\ (active = 1 <=> pc = "collect"))

\* The second tick has collected and updated the layout and is about to sleep.
C8_Witness ==
    /\ pc = "live_sleep"
    /\ ~tick_odd
    /\ output.kind = "live"
    /\ Len(calls) = 2
    /\ active = 0

\* C9: an exception other than the interrupt raised in a tick does not end the
\* loop: it is logged, the loop pauses 1 second and a new tick starts.
C9_TickErrorBacksOff ==
    /\ [][(pc = "live_render" /\ tick_exc' = "Exception")
            => (pc' = "live_backoff" /\ err_logged')]_vars
    /\ [][(pc = "live_backoff" /\ pc' # pc /\ ~interrupted')
            => (pc' = "call_collect" /\ paused' = 1)]_vars
    /\ [](tick_exc = "Exception" => pc \in {"live_backoff", "call_collect"})
    /\ (pc = "live_backoff") ~> (pc = "collect" \/ interrupted)

\* A tick failed, was logged, and the loop has paused 1 second before the
\* next collection.
C9_Witness ==
    /\ pc = "call_collect"
    /\ tick_exc = "Exception"
    /\ err_logged
    /\ paused = 1
    /\ ~interrupted

\* C10: the loop is left only on an interrupt; without one new ticks keep
\* starting, and after one no tick starts and the monitor has stopped.
C10_LoopEndsOnlyOnInterrupt ==
    /\ [][(pc \in LoopPcs /\ pc' \notin LoopPcs) => interrupted']_vars
    /\ [](interrupted => pc \in {"returned", "raised"})
    /\ \A b \in BOOLEAN :
         (pc \in LoopPcs /\ tick_odd = b) ~> (tick_odd # b \/ interrupted)

\* The monitor ran ticks, was interrupted and returned.
C10_Witness ==
    /\ pc = "returned"
    /\ interrupted
    /\ output.kind = "live"
    /\ raised = "none"

----------------------------------------------------------------------------
\* Direct calls of one function: the caller, the host and the result.

\* Every variable of a program run except pc; a direct call leaves them alone.
runVars == <<section, app_config, sections_to_show, all_chosen, collectVars,
             tickVars, callVars, probed, active, output, paused, raised,
             interrupted, exit_code>>

\* The state a direct call is made in.
InitCall ==
    /\ pc = "call"
    /\ entry = "caller"
    /\ section = <<>>
    /\ live = FALSE
    /\ output_mode = "display"
    /\ config_file = [kind |-> "missing"]
    /\ app_config = NoConfig
    /\ sections_to_show = <<>>
    /\ InitCommon
    /\ result = NoResult

\* The call returned v.
Return(v) == [kind |-> "return", value |-> v]

\* The call raised an exception of type t.
Raise(t) == [kind |-> "raise", type |-> t]

\* Python's None; a value v that may be None is written <<v>>.
None == <<>>

Min(a, b) == IF a < b THEN a ELSE b

----------------------------------------------------------------------------
\* The process probe (collect_process_info).

\* Longest repeating pattern of a host's process table, and the size of the
\* small process tables and of the small configured maximums.
MaxPattern == 2

\* max_processes of a collector without configuration.
DefaultMaxProcesses == 100

\* Config.max_processes when no file sets it.
ConfigMaxProcesses == 1000

\* The processes psutil.process_iter can yield: the attributes the probe asks
\* for (an attribute the host denies access to is None) and what reading
\* proc.info does.
ProcKinds ==
    { [name |-> "busy",   cpu_percent |-> <<2>>, memory_percent |-> <<5>>,
       status |-> "running",  info |-> "ok"],
      [name |-> "idle",   cpu_percent |-> <<0>>, memory_percent |-> <<0>>,
       status |-> "sleeping", info |-> "ok"],
      [name |-> "denied", cpu_percent |-> None,  memory_percent |-> None,
       status |-> "zombie",   info |-> "ok"],
      [name |-> "disk",   cpu_percent |-> <<1>>, memory_percent |-> <<1>>,
       status |-> "disk-sleep", info |-> "ok"],
      [name |-> "gone",   cpu_percent |-> <<1>>, memory_percent |-> <<1>>,
       status |-> "running", info |-> "NoSuchProcess"] }

\* Sizes of the process table: small ones, and ones around the two built-in
\* maximums.
TableSizes ==
    (0 .. MaxPattern + 1)
        \cup {DefaultMaxProcesses, DefaultMaxProcesses + 1, ConfigMaxProcesses + 1}

\* The process tables of the host: total processes, repeating pattern.
ProcessTables ==
    [kind : {"processes"},
     pattern : SeqsUpTo(ProcKinds, MaxPattern) \ {<<>>},
     total : TableSizes]

\* The collector's config as the process probe reads it: None, or a Config
\* whose max_processes is the default or was set by a configuration file.
ProbeConfigs ==
    {NoConfig} \cup
    [kind : {"Config"}, max_processes : (0 .. MaxPattern) \cup {ConfigMaxProcesses}]

\* psutil.process_iter(...): the table in the host's order.
process_iter(h) ==
    [i \in 1 .. h.total |-> h.pattern[((i - 1) % Len(h.pattern)) + 1]]

\* self.config.max_processes if self.config else 100
max_processes(cfg) ==
    IF cfg = NoConfig THEN DefaultMaxProcesses ELSE cfg.max_processes

\* The loop of collect_process_info with its break removed.
Enumerated_NoBreak(procs, max) == procs

\* The processes the loop of collect_process_info reaches: enumerate stops at
\* index max.
Enumerated(procs, max) == SubSeq(procs, 1, Min(Len(procs), max))

\* proc.info.copy(): the attributes asked for.
ProcessInfo(proc) ==
    [name |-> proc.name, cpu_percent |-> proc.cpu_percent,
     memory_percent |-> proc.memory_percent, status |-> proc.status]

\* The list the loop builds: a process whose info raises NoSuchProcess or
\* AccessDenied is skipped.
Appended(procs) ==
    LET Ok(proc) == proc.info = "ok"
        reached == SelectSeq(procs, Ok)
    IN  [i \in 1 .. Len(reached) |-> ProcessInfo(reached[i])]

\* The sort key without its "or 0".
CpuKey_NoDefault(x) == x.cpu_percent

\* lambda x: x.get('cpu_percent') or 0
CpuKey(x) ==
    IF x.cpu_percent = None \/ x.cpu_percent = <<0>> THEN <<0>> ELSE x.cpu_percent

\* list.sort compares keys with <, which raises TypeError on None.
SortRaises(s) ==
    /\ Len(s) > 1
    /\ \E i \in 1 .. Len(s) : CpuKey(s[i]) = None

\* processes.sort(key=..., reverse=True): stable, largest key first.
SortReverse(s) ==
    IF Len(s) <= 1 THEN s ELSE
    LET RECURSIVE From(_)
        From(keys) ==
            IF keys = {} THEN <<>>
            ELSE LET m == CHOOSE k \in keys : \A j \in keys : j <= k
                     HasKey(x) == CpuKey(x)[1] = m
                 IN  SelectSeq(s, HasKey) \o From(keys \ {m})
    IN  From({CpuKey(s[i])[1] : i \in 1 .. Len(s)})

\* len([p for p in processes if p.get('status') == st])
StatusCount(s, st) ==
    LET Has(p) == p.status = st IN Len(SelectSeq(s, Has))

\* collect_process_info: what it returns, or the CollectionError it raises
\* for any exception in its body.
collect_process_info(cfg, h) ==
    LET processes == Appended(Enumerated(process_iter(h), max_processes(cfg)))
    IN  IF SortRaises(processes)
          THEN Raise("CollectionError")
          ELSE LET sorted == SortReverse(processes)
               IN  Return([count |-> Len(sorted),
                           processes |-> sorted,
                           summary |->
                             [running  |-> StatusCount(sorted, "running"),
                              sleeping |-> StatusCount(sorted, "sleeping"),
                              zombie   |-> StatusCount(sorted, "zombie")]])

\* A caller calls collect_process_info on a collector.
CallProcessProbe ==
    /\ pc = "call"
    /\ call.fn = "collect_process_info"
    /\ result' = collect_process_info(call.config, host)
    /\ pc' = "done"
    /\ UNCHANGED <<args, runVars>>

----------------------------------------------------------------------------
\* The disk and GPU probes (_get_disk_info, _get_gpu_info).

\* Most partitions, and most GPUs, of a host.
MaxDevices == 2

\* A Python number n/d (d > 0), as a float or an int.
Float(n, d) == [kind |-> "float", num |-> n, den |-> d]

\* float('nan')
NaN == [kind |-> "nan", num |-> 0, den |-> 1]

\* The result of a division by zero: ZeroDivisionError is raised.
ZeroDivisionError == [kind |-> "ZeroDivisionError", num |-> 0, den |-> 1]

\* a / b
Div(a, b) == IF b = 0 THEN ZeroDivisionError ELSE Float(a, b)

\* x * k for an int k
Times(x, k) == IF x.kind = "float" THEN Float(x.num * k, x.den) ELSE x

\* What psutil.disk_usage answers for a partition: total and used bytes with
\* 0 <= used <= total, or an error.
PartitionKinds ==
    { [usage |-> "ok", total |-> 0, used |-> 0],
      [usage |-> "ok", total |-> 4, used |-> 0],
      [usage |-> "ok", total |-> 4, used |-> 1],
      [usage |-> "ok", total |-> 3, used |-> 1],
      [usage |-> "ok", total |-> 4, used |-> 4],
      [usage |-> "PermissionError", total |-> 4, used |-> 1],
      [usage |-> "OSError", total |-> 0, used |-> 0] }

\* The partition tables of the host; a partition's mountpoint is its position.
DiskHosts ==
    [kind : {"disks"}, partitions : SeqsUpTo(PartitionKinds, MaxDevices)]

\* The percent of a disk record computed without the test of total.
DiskPercent_NoGuard(usage) == Times(Div(usage.used, usage.total), 100)

\* (usage.used / usage.total) * 100 if usage.total > 0 else 0
DiskPercent(usage) ==
    IF usage.total > 0 THEN Times(Div(usage.used, usage.total), 100)
                       ELSE Float(0, 1)

\* The loop of _get_disk_info from partition i on: a partition whose usage
\* raises PermissionError or OSError is skipped; any other exception ends the
\* loop (except Exception: pass) and the disks found so far are returned.
RECURSIVE DiskLoop(_, _)
DiskLoop(partitions, i) ==
    IF i > Len(partitions) THEN <<>>
    ELSE IF partitions[i].usage # "ok" THEN DiskLoop(partitions, i + 1)
    ELSE IF DiskPercent(partitions[i]).kind = "ZeroDivisionError" THEN <<>>
    ELSE <<[mountpoint |-> i,
            total |-> partitions[i].total,
            used |-> partitions[i].used,
            percent |-> DiskPercent(partitions[i])]>>
            \o DiskLoop(partitions, i + 1)

_get_disk_info(h) == Return(DiskLoop(h.partitions, 1))

\* A caller calls _get_disk_info on a collector.
CallDiskProbe ==
    /\ pc = "call"
    /\ call.fn = "_get_disk_info"
    /\ result' = _get_disk_info(host)
    /\ pc' = "done"
    /\ UNCHANGED <<args, runVars>>

\* The fractions GPUtil reports as memoryUtil (memoryUsed / memoryTotal) and
\* load (utilization.gpu / 100): a number in [0, 1], or NaN when nvidia-smi
\* printed no number for the field.
GpuFractions == {Float(0, 1), Float(1, 4), Float(1, 1), NaN}

\* The GPUs GPUtil.getGPUs() lists.
GpuKinds ==
    [name : {"GPU"}, memoryTotal : {Float(8192, 1)},
     memoryUsed : {Float(2048, 1)}, temperature : {Float(60, 1)},
     memoryUtil : GpuFractions, load : GpuFractions]

\* A Python int.
PyInt(n) == [kind |-> "int", num |-> n, den |-> 1]

\* The characters int() converts, and the characters str.isdigit() accepts:
\* the decimal digits, and digits such as the superscript two besides.
DigitChars == {"0", "1", "2", "3", "4", "5", "6", "7", "8", "9"}
IsdigitChars == DigitChars \cup {"superscript 2"}

\* A field of nvidia-smi's answer, a sequence of characters: a number, the
\* text printed for a value the driver does not have, a superscript digit.
SmiFields ==
    { <<"3", "5">>, <<"[", "N", "/", "A", "]">>, <<"superscript 2">> }

\* The name nvidia-smi prints.
SmiName == <<"G", "P", "U">>

\* The lines of nvidia-smi's answer, each the fields between its commas, with
\* the blanks around them stripped: name, memory.total, memory.used,
\* temperature.gpu, utilization.gpu; a line with four fields, one with six,
\* and an empty line.
SmiLines ==
    { <<SmiName, f, g, f, g>> : f, g \in SmiFields }
    \cup { <<SmiName, <<"3", "5">>, <<"3", "5">>, <<"3", "5">> >>,
           <<SmiName, <<"3", "5">>, <<"3", "5">>, <<"3", "5">>, <<"3", "5">>,
             <<"3", "5">> >>,
           << <<>> >> }

\* What run_command gives for nvidia-smi: success and the lines of stdout.
SmiAnswers == [success : BOOLEAN, lines : SeqsUpTo(SmiLines, MaxDevices)]

\* The GPU facilities of the host: GPUtil lists GPUs, or GPUtil is not
\* installed or getGPUs raises and nvidia-smi answers.
GpuHosts ==
    [kind : {"gpus"}, GPUtil : {"ok"},
     gpu_list : SeqsUpTo(GpuKinds, MaxDevices),
     smi : [success : {TRUE}, lines : {<<>>, << <<SmiName, <<"3", "5">>,
                 <<"3", "5">>, <<"3", "5">>, <<"3", "5">> >> >>}]]
    \cup [kind : {"gpus"}, GPUtil : {"missing", "raises"}, gpu_list : {<<>>},
          smi : SmiAnswers]

\* The entries built from GPUtil's list.
GPUtilEntries(gpu_list) ==
    [i \in 1 .. Len(gpu_list) |->
        [source |-> "GPUtil",
         name |-> gpu_list[i].name,
         memory |-> [total |-> <<gpu_list[i].memoryTotal>>,
                     used |-> <<gpu_list[i].memoryUsed>>],
         memory_percent |-> Times(gpu_list[i].memoryUtil, 100),
         temperature |-> <<gpu_list[i].temperature>>,
         load |-> Times(gpu_list[i].load, 100)]]

\* str.isdigit()
isdigit(f) == f # <<>> /\ \A i \in 1 .. Len(f) : f[i] \in IsdigitChars

\* int(f) raises ValueError.
IntRaises(f) == f = <<>> \/ \E i \in 1 .. Len(f) : f[i] \notin DigitChars

\* int(f) for a field of decimal digits.
RECURSIVE IntOf(_)
IntOf(f) ==
    IF f = <<>> THEN 0
    ELSE 10 * IntOf(SubSeq(f, 1, Len(f) - 1))
            + (CHOOSE n \in 0 .. 9 : ToString(n) = f[Len(f)])

\* The characters of a field as one string.
RECURSIVE Chars(_)
Chars(f) == IF f = <<>> THEN "" ELSE Head(f) \o Chars(Tail(f))

\* int(parts[k]) if parts[k].isdigit() else 0
NotANumber(f) == <<PyInt(0)>>

\* The record of one line, a sequence of one record; no record for a line
\* that is empty, has fewer than five fields, or makes int() raise.
SmiRecord(parts) ==
    IF parts = << <<>> >> \/ Len(parts) < 5
      THEN <<>>
    ELSE IF \E k \in 2 .. 5 : isdigit(parts[k]) /\ IntRaises(parts[k])
      THEN <<>>
    ELSE << [source |-> "nvidia-smi",
             name |-> Chars(parts[1]),
             memory |->
               [total |-> IF isdigit(parts[2]) THEN <<PyInt(IntOf(parts[2]))>>
                          ELSE NotANumber(parts[2]),
                used |-> IF isdigit(parts[3]) THEN <<PyInt(IntOf(parts[3]))>>
                         ELSE NotANumber(parts[3])],
             memory_percent |-> None,
             temperature |-> IF isdigit(parts[4])
                               THEN <<PyInt(IntOf(parts[4]))>> ELSE None,
             load |-> IF isdigit(parts[5])
                        THEN <<PyInt(IntOf(parts[5]))>> ELSE None] >>

\* The entries built from nvidia-smi's lines.
RECURSIVE SmiEntries(_)
SmiEntries(lines) ==
    IF lines = <<>> THEN <<>>
    ELSE SmiRecord(Head(lines)) \o SmiEntries(Tail(lines))

\* The commands _get_gpu_info runs.
GpuCommands(h) == IF h.GPUtil = "ok" THEN <<>> ELSE <<"nvidia-smi">>

\* _get_gpu_info: GPUtil's list when GPUtil is there and works, else the
\* records of nvidia-smi's lines, none when the command did not succeed.
_get_gpu_info(h) ==
    IF h.GPUtil = "ok" THEN Return(GPUtilEntries(h.gpu_list))
    ELSE IF h.smi.success THEN Return(SmiEntries(h.smi.lines))
    ELSE Return(<<>>)

\* A caller calls _get_gpu_info on a collector.
CallGpuProbe ==
    /\ pc = "call"
    /\ call.fn = "_get_gpu_info"
    /\ result' = _get_gpu_info(host)
    /\ calls' = GpuCommands(host)
    /\ pc' = "done"
    /\ UNCHANGED <<args, section, app_config, sections_to_show, all_chosen,
                   idx, data, nfail, tickVars, callVars, probed, active,
                   output, paused, raised, interrupted, exit_code>>

----------------------------------------------------------------------------
\* The probes called directly.

\* The calls of a probe a caller can make, each with the host it runs on.
ProbeCalls ==
    { [call |-> [fn |-> "collect_process_info", config |-> c], host |-> h] :
        c \in ProbeConfigs, h \in ProcessTables }
    \cup { [call |-> [fn |-> "_get_disk_info", config |-> NoConfig], host |-> h] :
              h \in DiskHosts }
    \cup { [call |-> [fn |-> "_get_gpu_info", config |-> NoConfig], host |-> h] :
              h \in GpuHosts }

InitProbes ==
    /\ InitCall
    /\ \E c \in ProbeCalls : call = c.call /\ host = c.host

NextProbes ==
    \/ CallProcessProbe
    \/ CallDiskProbe
    \/ CallGpuProbe

SpecProbes == InitProbes /\ [][NextProbes]_vars

----------------------------------------------------------------------------
\* Claims about the process probe.

\* The process probe has returned a record.
ProcessRecordReturned ==
    /\ pc = "done"
    /\ call.fn = "collect_process_info"
    /\ result.kind = "return"

\* p.cpu_percent or 0
CpuOrZero(p) == IF p.cpu_percent = None THEN 0 ELSE p.cpu_percent[1]

\* C11: the process probe always returns a record, also when a process has a
\* null cpu percent, and in the record's process list every process has a cpu
\* percent (null counting as 0) at least as large as the next one's.
C11_ProcessesSortedByCpu ==
    (pc = "done" /\ call.fn = "collect_process_info") =>
        /\ result.kind = "return"
        /\ \A i \in 1 .. Len(result.value.processes) - 1 :
              CpuOrZero(result.value.processes[i])
                  >= CpuOrZero(result.value.processes[i + 1])

\* A returned list holds a process with a null cpu percent after a process
\* with a positive one, which the host listed later.
C11_Witness ==
    /\ ProcessRecordReturned
    /\ Len(host.pattern) = 2
    /\ host.pattern[1].cpu_percent = None
    /\ host.pattern[2].cpu_percent = <<2>>
    /\ Len(result.value.processes) >= 2
    /\ result.value.processes[1].cpu_percent = <<2>>
    /\ \E i \in 2 .. Len(result.value.processes) :
          result.value.processes[i].cpu_percent = None

\* The maximum the claim names for the collector's configuration.
ConfiguredMaximum == IF call.config = NoConfig THEN 100 ELSE call.config.max_processes

----------------------------------------------------------------------------
\* Claims about the disk and GPU probes.

\* The disk probe has ended.
DiskProbeDone == pc = "done" /\ call.fn = "_get_disk_info"

\* The partitions of the host whose usage the probe could read.
ReadablePartitions ==
    {i \in 1 .. Len(host.partitions) : host.partitions[i].usage = "ok"}

\* x is the number n / d.
IsNumber(x, n, d) == x.kind = "float" /\ x.num * d = n * x.den

\* C13: the disk probe returns, and for every partition it could read its list
\* holds a record; the record's percent is 0 when the partition's total is 0
\* and used / total * 100 when the total is positive.
C13_ZeroTotalGivesZeroPercent ==
    DiskProbeDone =>
        /\ result.kind = "return"
        /\ \A i \in ReadablePartitions :
              \E k \in 1 .. Len(result.value) :
                  /\ result.value[k].mountpoint = i
                  /\ IF host.partitions[i].total = 0
                       THEN IsNumber(result.value[k].percent, 0, 1)
                       ELSE IsNumber(result.value[k].percent,
                                     host.partitions[i].used * 100,
                                     host.partitions[i].total)

\* A partition of total 0 comes before a partition of positive total, and the
\* returned list holds both.
C13_Witness ==
    /\ DiskProbeDone
    /\ Len(host.partitions) = 2
    /\ host.partitions[1].usage = "ok" /\ host.partitions[1].total = 0
    /\ host.partitions[2].usage = "ok" /\ host.partitions[2].used = 1
    /\ Len(result.value) = 2
    /\ result.value[1].percent = Float(0, 1)
    /\ result.value[2].percent.num > 0

\* x is a number between 0 and 100.
IsPercentage(x) == x.kind = "float" /\ 0 <= x.num /\ x.num <= 100 * x.den

\* C14: every percentage the collector computes itself lies in [0, 100]: the
\* percent of every disk record, and the memory percent and the load of every
\* GPU record built from GPUtil's fractions.
C14_ComputedPercentagesInRange ==
    /\ DiskProbeDone =>
          \A k \in 1 .. Len(result.value) : IsPercentage(result.value[k].percent)
    /\ (pc = "done" /\ call.fn = "_get_gpu_info") =>
          \A k \in 1 .. Len(result.value) :
              result.value[k].source = "GPUtil" =>
                  /\ IsPercentage(result.value[k].memory_percent)
                  /\ IsPercentage(result.value[k].load)


----------------------------------------------------------------------------
\* The helpers (utils/helpers.py): format_uptime.

\* Largest number of days, and of the small numbers of hours and of minutes,
\* in an uptime.
MaxUnit == 2

\* The uptimes format_uptime is called with, in seconds: every combination of
\* days, hours (also 23), minutes (also 59) and seconds left over (0, 1, 59).
Uptimes ==
    { d * 86400 + h * 3600 + m * 60 + r :
        d \in 0 .. MaxUnit,
        h \in (0 .. MaxUnit) \cup {23},
        m \in (0 .. MaxUnit) \cup {59},
        r \in {0, 1, 59} }

\* UnitPart with the plural for every value.
UnitPart_AlwaysPlural(n, unit) == ToString(n) \o " " \o unit \o "s"

\* f"{n} unit{'s' if n != 1 else ''}"
UnitPart(n, unit) ==
    ToString(n) \o " " \o unit \o (IF n # 1 THEN "s" ELSE "")

\* ", ".join(parts)
RECURSIVE JoinComma(_)
JoinComma(parts) ==
    IF parts = <<>> THEN ""
    ELSE IF Len(parts) = 1 THEN parts[1]
    ELSE parts[1] \o ", " \o JoinComma(Tail(parts))

\* format_uptime(seconds)
format_uptime(seconds) ==
    LET days == seconds \div 86400
        hours == (seconds % 86400) \div 3600
        minutes == (seconds % 3600) \div 60
        parts == (IF days > 0 THEN <<UnitPart(days, "day")>> ELSE <<>>)
                 \o (IF hours > 0 THEN <<UnitPart(hours, "hour")>> ELSE <<>>)
                 \o (IF minutes > 0 THEN <<UnitPart(minutes, "minute")>> ELSE <<>>)
    IN  IF parts = <<>> THEN "less than a minute" ELSE JoinComma(parts)

\* A caller calls format_uptime.
CallFormatUptime ==
    /\ pc = "call"
    /\ call.fn = "format_uptime"
    /\ result' = Return(format_uptime(call.seconds))
    /\ pc' = "done"
    /\ UNCHANGED <<args, runVars>>

----------------------------------------------------------------------------
\* The helpers: format_bytes.

\* units of format_bytes
units == <<"B", "KB", "MB", "GB", "TB", "PB">>

\* The byte counts format_bytes is called with: m * 1024^e, written [m, e];
\* the counts beyond the last unit have a small m.
ByteCounts ==
    [m : {0, 1, 2, 512, 1023, 1024, 1025, 1088, 1280, 1536, 1792, 2047, 1048575},
     e : 0 .. Len(units) - 1]
    \cup [m : {1, 1023, 1024, 2047}, e : {Len(units)}]

\* The loop of format_bytes: size is num / den * 1024^e in unit i.
RECURSIVE Scale(_, _, _, _)
Scale(num, den, e, i) ==
    IF (e > 0 \/ num >= 1024 * den) /\ i < Len(units) - 1
      THEN IF e > 0 THEN Scale(num, den, e - 1, i + 1)
                    ELSE Scale(num, den * 1024, e, i + 1)
      ELSE [num |-> IF e > 0 THEN num * 1024 ELSE num, den |-> den, i |-> i]

\* OneDecimal that cuts the digits after the first decimal.
OneDecimal_Truncates(num, den) ==
    ToString(((10 * num) \div den) \div 10) \o "."
        \o ToString(((10 * num) \div den) % 10)

\* f"{size:.1f}" for size = num / den: the nearest tenth, the even one of two
\* equally near.
OneDecimal(num, den) ==
    LET q == (10 * num) \div den
        r == (10 * num) % den
        tenths == IF 2 * r > den \/ (2 * r = den /\ q % 2 = 1) THEN q + 1 ELSE q
    IN  ToString(tenths \div 10) \o "." \o ToString(tenths % 10)

\* format_bytes(bytes_value) for bytes_value = n.m * 1024^n.e
format_bytes(n) ==
    IF n.m = 0 THEN "0 B"
    ELSE LET s == Scale(n.m, 1, n.e, 0)
         IN  OneDecimal(s.num, s.den) \o " " \o units[s.i + 1]

\* A caller calls format_bytes.
CallFormatBytes ==
    /\ pc = "call"
    /\ call.fn = "format_bytes"
    /\ result' = Return(format_bytes(call.bytes_value))
    /\ pc' = "done"
    /\ UNCHANGED <<args, runVars>>

----------------------------------------------------------------------------
\* The helpers: run_command.

\* What subprocess.run does with the command: it completes with an exit
\* status and the two captured streams, or it raises.
SubprocessOutcomes ==
    [kind : {"completed"}, returncode : {0, 1, 127}, stdout : {"", "test\n"},
     stderr : {"", "error\n"}, message : {""}]
    \cup [kind : {"TimeoutExpired", "FileNotFoundError"}, returncode : {0},
          stdout : {""}, stderr : {""}, message : {"timed out", "No such file"}]
    \cup [kind : {"PermissionError", "ValueError", "IndexError", "OSError"},
          returncode : {0}, stdout : {""}, stderr : {""},
          message : {"Permission denied", ""}]

Subprocesses == [kind : {"subprocess"}, outcome : SubprocessOutcomes]

\* The (success, stdout, stderr) run_command returns.
Triple(success, stdout, stderr) ==
    Return([success |-> success, stdout |-> stdout, stderr |-> stderr])

\* run_command without its last handler.
run_command_NoCatchAll(o) ==
    CASE o.kind = "completed" -> Triple(o.returncode = 0, o.stdout, o.stderr)
      [] o.kind = "TimeoutExpired" -> Triple(FALSE, "", "Command timed out")
      [] o.kind = "FileNotFoundError" -> Triple(FALSE, "", "Command not found")
      [] OTHER -> Raise(o.kind)

\* run_command(command, timeout) when subprocess.run does o.
run_command(o) ==
    CASE o.kind = "completed" -> Triple(o.returncode = 0, o.stdout, o.stderr)
      [] o.kind = "TimeoutExpired" -> Triple(FALSE, "", "Command timed out")
      [] o.kind = "FileNotFoundError" -> Triple(FALSE, "", "Command not found")
      [] OTHER -> Triple(FALSE, "", o.message)

\* A caller calls run_command.
CallRunCommand ==
    /\ pc = "call"
    /\ call.fn = "run_command"
    /\ result' = run_command(host.outcome)
    /\ pc' = "done"
    /\ UNCHANGED <<args, runVars>>

----------------------------------------------------------------------------
\* The helpers called directly.

NoHost == [kind |-> "none"]

HelperCalls ==
    { [call |-> [fn |-> "format_uptime", seconds |-> s], host |-> NoHost] :
        s \in Uptimes }
    \cup { [call |-> [fn |-> "format_bytes", bytes_value |-> n], host |-> NoHost] :
             n \in ByteCounts }
    \cup { [call |-> [fn |-> "run_command"], host |-> h] : h \in Subprocesses }

InitHelpers ==
    /\ InitCall
    /\ \E c \in HelperCalls : call = c.call /\ host = c.host

NextHelpers ==
    \/ CallFormatUptime
    \/ CallFormatBytes
    \/ CallRunCommand

SpecHelpers == InitHelpers /\ [][NextHelpers]_vars


----------------------------------------------------------------------------
\* Claims about the helpers.

\* A helper has returned.
HelperReturned(fn) == pc = "done" /\ call.fn = fn /\ result.kind = "return"

\* "<v> <unit>" in the singular for 1 and in the plural otherwise; nothing for 0.
Phrase(v, unit) ==
    IF v = 0 THEN ""
    ELSE IF v = 1 THEN "1 " \o unit
    ELSE ToString(v) \o " " \o unit \o "s"

\* a and b joined by ", " when there are both.
Listed(a, b) == IF a = "" \/ b = "" THEN a \o b ELSE a \o ", " \o b

\* C15: format_uptime(s) is "less than a minute" exactly when s < 60, and
\* otherwise lists d = s div 86400 days, h = (s mod 86400) div 3600 hours and
\* m = (s mod 3600) div 60 minutes in that order, joined by ", ", without the
\* units whose value is 0 and with the singular exactly for the value 1.
C15_UptimePhrase ==
    HelperReturned("format_uptime") =>
        LET s == call.seconds
            d == s \div 86400
            h == (s % 86400) \div 3600
            m == (s % 3600) \div 60
        IN  /\ (result.value = "less than a minute") <=> (s < 60)
            /\ (d = 0 /\ h = 0 /\ m = 0) <=> (s < 60)
            /\ s >= 60 =>
                  result.value =
                      Listed(Listed(Phrase(d, "day"), Phrase(h, "hour")),
                             Phrase(m, "minute"))

\* An uptime of one day, two hours, one minute and 59 seconds was formatted.
C15_Witness ==
    /\ HelperReturned("format_uptime")
    /\ call.seconds = 86400 + 7200 + 60 + 59
    /\ result.value = "1 day, 2 hours, 1 minute"

\* The unit step of the count m * 1024^e: the number of divisions by 1024
\* that bring it below 1024, at most the step of PB.
UnitStep(n) ==
    Min(n.e + (IF n.m < 1024 THEN 0 ELSE IF n.m < 1024 * 1024 THEN 1 ELSE 2),
        Len(units) - 1)

\* The count n divided UnitStep(n) times by 1024, as a fraction.
InUnit(n) ==
    IF n.e >= UnitStep(n)
      THEN [num |-> n.m * 1024 ^ (n.e - UnitStep(n)), den |-> 1]
      ELSE [num |-> n.m, den |-> 1024 ^ (UnitStep(n) - n.e)]

\* C16: format_bytes(0) is "0 B"; for n > 0 the result is n divided by 1024
\* until it is below 1024 or in PB, as the nearest number with one decimal,
\* followed by the unit of that step; 1024, 1024^2 and 1024^3 give "1.0 KB",
\* "1.0 MB" and "1.0 GB".
C16_BytesPhrase ==
    HelperReturned("format_bytes") =>
        LET n == call.bytes_value
            v == InUnit(n)
            q == (10 * v.num) \div v.den
        IN  /\ n.m = 0 => result.value = "0 B"
            /\ n.m > 0 =>
                  \E t \in {q, q + 1} :
                      /\ 2 * (10 * v.num - t * v.den) <= v.den
                      /\ 2 * (t * v.den - 10 * v.num) <= v.den
                      /\ result.value =
                            ToString(t \div 10) \o "." \o ToString(t % 10)
                                \o " " \o units[UnitStep(n) + 1]
            /\ n \in {[m |-> 1, e |-> 1], [m |-> 1024, e |-> 0]}
                  => result.value = "1.0 KB"
            /\ n \in {[m |-> 1, e |-> 2], [m |-> 1024, e |-> 1]}
                  => result.value = "1.0 MB"
            /\ n \in {[m |-> 1, e |-> 3], [m |-> 1024, e |-> 2]}
                  => result.value = "1.0 GB"

\* 1088 * 1024 bytes were formatted as 1.0625 MB rounded to one decimal.
C16_Witness ==
    /\ HelperReturned("format_bytes")
    /\ call.bytes_value = [m |-> 1088, e |-> 1]
    /\ result.value = "1.1 MB"

\* C17: run_command raises nothing and returns (returncode = 0, stdout,
\* stderr) when the process completed, (False, "", "Command timed out") on a
\* timeout, (False, "", "Command not found") when the binary is missing and
\* (False, "", the failure's message) on any other failure.
C17_RunCommandNeverRaises ==
    (pc = "done" /\ call.fn = "run_command") =>
        /\ result.kind = "return"
        /\ host.outcome.kind = "completed" =>
              result.value = [success |-> host.outcome.returncode = 0,
                              stdout |-> host.outcome.stdout,
                              stderr |-> host.outcome.stderr]
        /\ host.outcome.kind = "TimeoutExpired" =>
              result.value = [success |-> FALSE, stdout |-> "",
                              stderr |-> "Command timed out"]
        /\ host.outcome.kind = "FileNotFoundError" =>
              result.value = [success |-> FALSE, stdout |-> "",
                              stderr |-> "Command not found"]
        /\ host.outcome.kind \notin {"completed", "TimeoutExpired", "FileNotFoundError"} =>
              result.value = [success |-> FALSE, stdout |-> "",
                              stderr |-> host.outcome.message]

\* The command could not be executed for a reason other than a timeout or a
\* missing binary, and the caller got the reason.
C17_Witness ==
    /\ HelperReturned("run_command")
    /\ host.outcome.kind = "PermissionError"
    /\ result.value = [success |-> FALSE, stdout |-> "", stderr |-> "Permission denied"]


----------------------------------------------------------------------------
\* Export and rendering of a Snapshot (display_all, output_json,
\* save_to_file of core/display.py).

\* The sections a Snapshot handed to the display manager holds.
ExportKeys == {"system", "processes", "python"}

\* What a section's value is like: a mapping of JSON primitives ("plain"), a
\* SectionError ("error"), a mapping holding a value json has no encoding for,
\* such as a datetime ("object"), a mapping holding a NaN ("nan"), and a
\* mapping a display method raises on ("unrenderable").
ValueKinds == {"plain", "error", "object", "nan", "unrenderable"}

\* A Snapshot is a dict: its entries in insertion order, no key twice.
Snapshots ==
    { d \in SeqsUpTo([key : ExportKeys, value : ValueKinds], MaxLen) :
        \A i, j \in 1 .. Len(d) : d[i].key = d[j].key => i = j }

\* section in data
InData(d, s) == \E i \in 1 .. Len(d) : d[i].key = s

\* data[section]
Lookup(d, s) == d[CHOOSE i \in 1 .. Len(d) : d[i].key = s].value

\* One console.print: the header panel, an empty line, a section's panels or
\* the line that names the saved file.
Item(what, name, value) == [item |-> what, name |-> name, value |-> value]

\* _display_header: the header panel and an empty line.
HeaderItems == <<Item("header", "", ""), Item("blank", "", "")>>

\* _display_section raises on this value.
SectionRaises(v) == v = "unrenderable"

\* _display_section: the error panel for a SectionError, else what the
\* section's display method prints.
SectionItems(s, v) ==
    IF v = "error" THEN <<Item("error panel", s, v)>> ELSE <<Item("section", s, v)>>

\* The loop over sections of display_all (blank = TRUE: an empty line after
\* every section) and of save_to_file (blank = FALSE), from position i on:
\* what is printed, and whether a display method raised.
RECURSIVE SectionLoop(_, _, _, _)
SectionLoop(d, sections, i, blank) ==
    IF i > Len(sections) THEN [printed |-> <<>>, raised |-> FALSE]
    ELSE IF ~InData(d, sections[i]) THEN SectionLoop(d, sections, i + 1, blank)
    ELSE IF SectionRaises(Lookup(d, sections[i]))
      THEN [printed |-> <<>>, raised |-> TRUE]
    ELSE LET rest == SectionLoop(d, sections, i + 1, blank)
         IN  [printed |-> SectionItems(sections[i], Lookup(d, sections[i]))
                            \o (IF blank THEN <<Item("blank", "", "")>> ELSE <<>>)
                            \o rest.printed,
              raised |-> rest.raised]

\* No file was written.
NoFile == [written |-> FALSE, content |-> <<>>]

\* What a call of the display manager did: how it ended, what it printed on
\* its console, what it printed on stdout and what it wrote to the file.
Effects(kind, console, stdout, file) ==
    [kind |-> kind, console |-> console, stdout |-> stdout, file |-> file]

\* display_all(data, sections)
display_all(d, sections) ==
    LET loop == SectionLoop(d, sections, 1, TRUE)
    IN  Effects(IF loop.raised THEN "DisplayError" ELSE "return",
                HeaderItems \o loop.printed, <<>>, NoFile)

\* A caller calls display_all.
CallDisplayAll ==
    /\ pc = "call"
    /\ call.fn = "display_all"
    /\ result' = display_all(call.data, call.sections)
    /\ pc' = "done"
    /\ UNCHANGED <<args, runVars>>

\* The JSON text of a string: the section names need no escapes.
Quote(k) == "\"" \o k \o "\""

\* json's encoding of a section's value without default=str: TypeError for
\* a value json has no encoding for.
EncodeValue_NoDefault(v) ==
    CASE v = "error" -> "{\"error\": \"...\"}"
      [] v = "object" -> "TypeError"
      [] v = "nan" -> "{\"load\": NaN}"
      [] OTHER -> "{...}"

\* json's encoding of a section's value with default=str: the str() of a
\* value json has no encoding for, NaN for a NaN.
EncodeValue(v) ==
    CASE v = "error" -> "{\"error\": \"...\"}"
      [] v = "object" -> "{\"time\": \"2026-01-01 00:00:00\"}"
      [] v = "nan" -> "{\"load\": NaN}"
      [] OTHER -> "{...}"

\* The members of the JSON object of the entries of d from position i on.
RECURSIVE Members(_, _)
Members(d, i) ==
    IF i > Len(d) THEN <<>>
    ELSE <<Quote(d[i].key), ":", EncodeValue(d[i].value)>>
            \o (IF i < Len(d) THEN <<",">> ELSE <<>>)
            \o Members(d, i + 1)

\* json.dumps(data, indent=2, default=str) raises.
DumpsRaises(d) == \E i \in 1 .. Len(d) : EncodeValue(d[i].value) = "TypeError"

\* json.dumps(data, indent=2, default=str): the text, token by token.
dumps(d) == <<"{">> \o Members(d, 1) \o <<"}">>

\* The key a JSON string stands for.
Unquote(token) == CHOOSE k \in ExportKeys : Quote(k) = token

\* json.loads(text): the mapping of the object's members; every member takes
\* four tokens, the key first.
loads(text) ==
    LET keyAt == {i \in 2 .. Len(text) - 1 : i % 4 = 2}
    IN  [k \in {Unquote(text[i]) : i \in keyAt} |->
            text[(CHOOSE i \in keyAt : Unquote(text[i]) = k) + 2]]

\* output_json(data)
output_json(d) ==
    IF DumpsRaises(d) THEN Effects("DisplayError", <<>>, <<>>, NoFile)
                      ELSE Effects("return", <<>>, dumps(d), NoFile)

\* A caller calls output_json.
CallOutputJson ==
    /\ pc = "call"
    /\ call.fn = "output_json"
    /\ result' = output_json(call.data)
    /\ pc' = "done"
    /\ UNCHANGED <<args, runVars>>

\* The suffixes of the paths save_to_file is given.
Suffixes == {".json", ".JSON", ".txt", ""}

\* str.lower() on a suffix.
Lower(suffix) == IF suffix = ".JSON" THEN ".json" ELSE suffix

\* The line save_to_file prints on the console after writing.
SavedItems == <<Item("saved", "", "")>>

\* save_to_file that renders every section of the Snapshot, listed or not.
WrittenText_WholeSnapshot(d, sections) ==
    SectionLoop(d, [i \in 1 .. Len(d) |-> d[i].key], 1, FALSE)

\* The sections save_to_file renders on its temporary console.
WrittenText(d, sections) == SectionLoop(d, sections, 1, FALSE)

\* save_to_file(data, file_path, sections) for a path with this suffix.
save_to_file(d, suffix, sections) ==
    IF Lower(suffix) = ".json"
      THEN IF DumpsRaises(d)
             THEN Effects("DisplayError", <<>>, <<>>, [written |-> TRUE, content |-> <<>>])
             ELSE Effects("return", SavedItems, <<>>,
                          [written |-> TRUE, content |-> dumps(d)])
      ELSE IF WrittenText(d, sections).raised
             THEN Effects("DisplayError", <<>>, <<>>, NoFile)
             ELSE Effects("return", SavedItems, <<>>,
                          [written |-> TRUE,
                           content |-> HeaderItems \o WrittenText(d, sections).printed])

\* A caller calls save_to_file.
CallSaveToFile ==
    /\ pc = "call"
    /\ call.fn = "save_to_file"
    /\ result' = save_to_file(call.data, call.suffix, call.sections)
    /\ pc' = "done"
    /\ UNCHANGED <<args, runVars>>

\* The section lists handed to display_all and save_to_file.
ExportLists == SeqsUpTo(ExportKeys, MaxLen)

ExportCalls ==
    [fn : {"output_json"}, data : Snapshots]
    \cup [fn : {"display_all"}, data : Snapshots, sections : ExportLists]
    \cup [fn : {"save_to_file"}, data : Snapshots, sections : ExportLists,
          suffix : Suffixes]

InitExport ==
    /\ InitCall
    /\ call \in ExportCalls
    /\ host = NoHost

NextExport ==
    \/ CallDisplayAll
    \/ CallOutputJson
    \/ CallSaveToFile

SpecExport == InitExport /\ [][NextExport]_vars


----------------------------------------------------------------------------
\* Claims about export.

\* The section keys of a Snapshot.
Keys(d) == {d[i].key : i \in 1 .. Len(d)}

\* C18: output_json succeeds for every Snapshot, also one holding
\* SectionErrors and values json has no encoding for, and parsing the text it
\* prints gives a mapping with exactly the Snapshot's section keys.
C18_JsonExportKeepsKeys ==
    (pc = "done" /\ call.fn = "output_json") =>
        /\ result.kind = "return"
        /\ DOMAIN loads(result.stdout) = Keys(call.data)

\* A Snapshot with a SectionError and with a value json has no encoding for
\* was exported and parsed back to its two keys.
C18_Witness ==
    /\ pc = "done"
    /\ call.fn = "output_json"
    /\ Len(call.data) = 2
    /\ call.data[1].value = "error"
    /\ call.data[2].value = "object"
    /\ result.kind = "return"
    /\ Cardinality(DOMAIN loads(result.stdout)) = 2

\* save_to_file has written and returned.
Saved == pc = "done" /\ call.fn = "save_to_file" /\ result.kind = "return"

\* The listed sections the Snapshot holds, in list order.
ListedPresent ==
    LET Held(s) == InData(call.data, s) IN SelectSeq(call.sections, Held)

\* What was printed, without the empty lines.
Content(items) ==
    LET Inked(x) == x.item # "blank" IN SelectSeq(items, Inked)

\* C19: for a path whose suffix is .json (in either case) save_to_file writes
\* the JSON of the whole Snapshot; for any other suffix it writes the header
\* followed by the rendering of every listed section the Snapshot holds, in
\* list order, with the content display_all prints for the same arguments.
C19_SaveMatchesInteractiveRendering ==
    Saved =>
        /\ result.file.written
        /\ call.suffix \in {".json", ".JSON"} =>
              /\ result.file.content = dumps(call.data)
              /\ DOMAIN loads(result.file.content) = Keys(call.data)
        /\ call.suffix \notin {".json", ".JSON"} =>
              /\ SubSeq(result.file.content, 1, 2) = HeaderItems
              /\ Len(result.file.content) = 2 + Len(ListedPresent)
              /\ \A i \in 1 .. Len(ListedPresent) :
                    /\ result.file.content[2 + i].name = ListedPresent[i]
                    /\ result.file.content[2 + i].value
                          = Lookup(call.data, ListedPresent[i])
                    /\ result.file.content[2 + i].item
                          = (IF Lookup(call.data, ListedPresent[i]) = "error"
                               THEN "error panel" ELSE "section")
              /\ display_all(call.data, call.sections).kind = "return"
              /\ Content(result.file.content)
                    = Content(display_all(call.data, call.sections).console)

\* A text file was written for two listed sections that the Snapshot holds in
\* the other order, one of them a SectionError.
C19_Witness ==
    /\ Saved
    /\ call.suffix = ".txt"
    /\ call.sections = <<"python", "system">>
    /\ Len(call.data) = 2
    /\ call.data[1] = [key |-> "system", value |-> "error"]
    /\ call.data[2].key = "python"
    /\ Len(result.file.content) = 4
    /\ result.file.content[3].name = "python"
    /\ result.file.content[4].item = "error panel"


----------------------------------------------------------------------------
\* The Config object and the loading of a configuration file (core/config.py).

\* Most keys of a configuration file's JSON object.
MaxKeys == 2

\* A Python value: its type and its text.
Val(type, text) == [type |-> type, text |-> text]

\* The fields of the dataclass Config that hold settings.
ConfigFields ==
    {"default_sections", "live_update_interval", "enable_live_updates",
     "enable_colors", "page_size", "temperature_unit", "network_timeout",
     "dns_servers", "log_level", "log_file", "max_processes", "enable_caching",
     "cache_duration"}

\* The operations of Config.
ConfigOperations ==
    {"create", "_get_config_file_path", "_load_config", "save_config",
     "get_log_file_path", "to_dict", "from_dict", "validate"}

\* The built-in default of every field.
FieldDefault(f) ==
    CASE f = "default_sections" -> Val("list", "['system', 'hardware', 'network']")
      [] f = "live_update_interval" -> Val("float", "2.0")
      [] f = "enable_live_updates" -> Val("bool", "True")
      [] f = "enable_colors" -> Val("bool", "True")
      [] f = "page_size" -> Val("int", "50")
      [] f = "temperature_unit" -> Val("str", "celsius")
      [] f = "network_timeout" -> Val("int", "5")
      [] f = "dns_servers" -> Val("list", "['8.8.8.8', '1.1.1.1']")
      [] f = "log_level" -> Val("str", "INFO")
      [] f = "log_file" -> Val("NoneType", "None")
      [] f = "max_processes" -> Val("int", "1000")
      [] f = "enable_caching" -> Val("bool", "True")
      [] f = "cache_duration" -> Val("int", "60")

\* Config() with its _config_file set to path: every name hasattr finds on
\* the object (its fields, _config_file and its methods) with its value.
ConfigObject(path) ==
    [a \in ConfigFields \cup {"_config_file"} \cup ConfigOperations |->
        IF a \in ConfigFields THEN FieldDefault(a)
        ELSE IF a = "_config_file" THEN path
        ELSE Val("method", a)]

\* The path Config.create resolves, and the _config_file of Config().
ConfigPath == Val("Path", "~/.rain/config.json")

\* _config_file of a Config that was not created from a file.
NoPath == Val("NoneType", "None")

\* The keys a configuration file or a dictionary can name: fields, names that
\* are no attribute of Config, and other names of attributes.
FileKeys ==
    {"default_sections", "max_processes", "temperature_unit",
     "theme", "validate", "to_dict", "_config_file"}

\* The values a key can be given.
FileValues == {Val("str", "kelvin"), Val("int", "7")}

\* The JSON objects with at most MaxKeys keys.
KeySets == {K \in SUBSET FileKeys : Cardinality(K) <= MaxKeys}
ConfigDicts == UNION {[K -> FileValues] : K \in KeySets}

\* The configuration file of the host: missing, not JSON, or a JSON object.
ConfigHosts ==
    {[kind |-> "missing", content |-> EmptyMap],
     [kind |-> "corrupt", content |-> EmptyMap]}
        \cup [kind : {"json"}, content : ConfigDicts]

\* Config.create(config_path): Config(), the path, then _load_config.
Config_create(h) ==
    CASE h.kind = "missing" -> Return(ConfigObject(ConfigPath))
      [] h.kind = "corrupt" -> Raise("ConfigError")
      [] OTHER -> Return(LoadDict(ConfigObject(ConfigPath), h.content))

\* Config.from_dict(data)
Config_from_dict(d) == Return(LoadDict(ConfigObject(NoPath), d))

\* A caller calls Config.create.
CallConfigCreate ==
    /\ pc = "call"
    /\ call.fn = "Config.create"
    /\ result' = Config_create(host)
    /\ pc' = "done"
    /\ UNCHANGED <<args, runVars>>

\* A caller calls Config.from_dict.
CallConfigFromDict ==
    /\ pc = "call"
    /\ call.fn = "Config.from_dict"
    /\ result' = Config_from_dict(call.data)
    /\ pc' = "done"
    /\ UNCHANGED <<args, runVars>>

ConfigCalls ==
    { [call |-> [fn |-> "Config.create", data |-> EmptyMap], host |-> h] :
        h \in ConfigHosts }
    \cup { [call |-> [fn |-> "Config.from_dict", data |-> d], host |-> NoHost] :
             d \in ConfigDicts }

InitConfig ==
    /\ InitCall
    /\ \E c \in ConfigCalls : call = c.call /\ host = c.host

NextConfig ==
    \/ CallConfigCreate
    \/ CallConfigFromDict

SpecConfig == InitConfig /\ [][NextConfig]_vars

----------------------------------------------------------------------------
\* Claims about the configuration.

\* A Config was loaded from these keys and values.
ConfigLoaded ==
    /\ pc = "done"
    /\ call.fn \in {"Config.create", "Config.from_dict"}
    /\ result.kind = "return"

\* The keys and values the Config was loaded from.
Named == IF call.fn = "Config.create" THEN host.content ELSE call.data

\* The Config before anything was loaded into it.
Fresh == ConfigObject(IF call.fn = "Config.create" THEN ConfigPath ELSE NoPath)

\* C20: loading changes exactly the fields the file names: a field the file
\* names takes the file's value, every other field, the file path and every
\* operation of the Config stay as they were, whatever other keys the file
\* holds; a missing file leaves every field at its default.
C20_LoadChangesOnlyNamedFields ==
    ConfigLoaded =>
        /\ \A f \in ConfigFields :
              result.value[f] = (IF f \in DOMAIN Named THEN Named[f] ELSE FieldDefault(f))
        /\ \A a \in ConfigOperations \cup {"_config_file"} :
              result.value[a] = Fresh[a]
        /\ DOMAIN result.value = DOMAIN Fresh


----------------------------------------------------------------------------
\* Claims about the configuration of a command line run.

\* The configuration file cannot be parsed, or sets the refresh interval to a
\* value that is not positive.
InvalidConfigFile ==
    \/ config_file.kind = "corrupt"
    \/ /\ config_file.kind = "json"
       /\ "live_update_interval" \in DOMAIN config_file.content
       /\ config_file.content.live_update_interval <= 0

\* C21: a run whose configuration file cannot be parsed or sets a field to an
\* invalid value collects nothing and ends with a ConfigError and a non-zero
\* exit code.
C21_InvalidConfigEndsTheRun ==
    (entry = "cli" /\ InvalidConfigFile /\ ~HasInvalidOption /\ ~interrupted)
        => /\ ~probed
           /\ pc = "exited" => (raised = "ConfigError" /\ exit_code \notin {0, NoExit})


\* C22: when the command line holds no -s option, the list main hands to the
\* collector and the renderer is the seven sections; stated for the runs with
\* the built-in configuration (no configuration file).
C22_NoOptionShowsAllSections ==
    [][(entry = "cli" /\ pc = "select" /\ section = <<>>
            /\ config_file.kind = "missing"
            /\ pc' \in {"live_init", "call_collect"})
        => sections_to_show' = Seven]_vars


----------------------------------------------------------------------------
\* collect_all_data with the external calls of its probes: the moments a
\* probe starts and ends, and the waiting in a subprocess or an HTTP request.

\* run_command's default timeout in seconds; no caller passes another.
CommandTimeout == 5

\* The timeout of the HTTP request of a collector that has no configuration.
DefaultNetworkTimeout == 5

\* The network_timeout a configuration can hold: the default, a number from
\* the file, or the file's null (from_dict assigns what the file holds).
NetworkTimeouts == {<<DefaultNetworkTimeout>>, <<1>>, None}

\* The collector's self.config: None, or a configuration.
CollectorConfigs ==
    {None} \cup {<<[network_timeout |-> n]>> : n \in NetworkTimeouts}

\* The hosts of a collection: platform.system(), whether the optional
\* libraries (GPUtil, pkg_resources) import, and the collector's configuration.
BlockingHosts ==
    [kind : {"collector"}, system : {"Linux", "Darwin", "Windows"},
     libraries : {"present", "missing"}, config : CollectorConfigs]

\* A subprocess run through run_command, and the HTTP request.
Command(name) == [op |-> "subprocess", name |-> name]
HttpGet == [op |-> "http", name |-> "api.ipify.org"]

\* The command _get_firewall_status runs, if any.
FirewallCommands(h) ==
    CASE h.system = "Linux" -> <<Command("ufw")>>
      [] h.system = "Darwin" -> <<Command("pfctl")>>
      [] OTHER -> <<>>

\* The command _check_admin_privileges runs.
AdminCommand(h) ==
    IF h.system = "Windows" THEN Command("net") ELSE Command("sudo")

\* The external calls the probe of section s makes on host h, in order.
Externals(s, h) ==
    CASE s = "hardware" ->
           IF h.libraries = "missing" THEN <<Command("nvidia-smi")>> ELSE <<>>
      [] s = "network" -> <<HttpGet>>
      [] s = "security" -> FirewallCommands(h) \o <<AdminCommand(h)>>
      [] s = "python" ->
           IF h.libraries = "missing" THEN <<Command("pip")>> ELSE <<>>
      [] OTHER -> <<>>

\* The timeout the external call x is made with: None waits without limit.
TimeoutOf(x, h) ==
    IF x.op = "subprocess" THEN <<CommandTimeout>>
    ELSE IF h.config = None THEN <<DefaultNetworkTimeout>>
    ELSE h.config[1].network_timeout

\* What an external call can answer when it answers.
Responses == {"ok", "failed"}

\* What the probe gets from the external call x that did r ("timeout" when
\* it was cut off): run_command's success flag, or the public address.
ExternalValue(x, r) ==
    IF x.op = "subprocess"
      THEN LET o == [kind |-> IF r = "timeout" THEN "TimeoutExpired"
                              ELSE "completed",
                     returncode |-> IF r = "ok" THEN 0 ELSE 1,
                     stdout |-> "", stderr |-> "", message |-> ""]
           IN  [of |-> x.name, how |-> r,
                value |-> run_command(o).value.success]
      ELSE [of |-> x.name, how |-> r, value |-> r = "ok"]

\* The probe in progress and its external calls.
Running == calls[Len(calls)]
RunningExternals == Externals(Running.section, host)

\* collect_all_data(sections) is entered: data = {}.
BeginCollect ==
    /\ pc = "call_collect"
    /\ entry = "blocking"
    /\ data' = EmptyMap
    /\ idx' = 1
    /\ calls' = <<>>
    /\ nfail' = 0
    /\ pc' = "loop"
    /\ UNCHANGED <<args, result, callVars, tickVars, section, app_config,
                   sections_to_show, all_chosen, probed, active, output,
                   paused, raised, interrupted, exit_code>>

\* The index the loop goes to after the probe at index i did outcome.
NextIndex_StopsOnFailure(i, n, outcome) ==
    IF outcome = "return" THEN i + 1 ELSE n + 1

\* for section in sections: the try/except keeps the loop going.
NextIndex(i, n, outcome) == i + 1

\* for section in sections: the next name; its probe, if it has one, starts.
ProbeStart ==
    /\ pc = "loop"
    /\ idx <= Len(sections_to_show)
    /\ LET s == sections_to_show[idx] IN
         IF s \in section_collectors
           THEN /\ calls' = Append(calls, [section |-> s, at |-> idx,
                                           outcome |-> "running"])
                /\ step' = [at |-> 1, got |-> <<>>]
                /\ pc' = "probe"
                /\ probed' = TRUE
                /\ UNCHANGED idx
           ELSE /\ idx' = NextIndex(idx, Len(sections_to_show), "return")
                /\ UNCHANGED <<calls, step, pc, probed>>
    /\ UNCHANGED <<args, result, blocked, heap, held, cache, tickVars,
                   section, app_config, sections_to_show, all_chosen, data,
                   nfail, active, output, paused, raised, interrupted,
                   exit_code>>

\* The probe makes its next external call and waits in it.
ExternalCall ==
    /\ pc = "probe"
    /\ step.at <= Len(RunningExternals)
    /\ LET x == RunningExternals[step.at] IN
         blocked' = [op |-> x.op, name |-> x.name,
                     timeout |-> TimeoutOf(x, host), elapsed |-> 0]
    /\ pc' = "waiting"
    /\ UNCHANGED <<args, result, step, heap, held, cache, tickVars, section,
                   app_config, sections_to_show, all_chosen, collectVars,
                   probed, active, output, paused, raised, interrupted,
                   exit_code>>

\* The external call ended with r: the probe has its value and goes on.
Resume(r) ==
    /\ step' = [at |-> step.at + 1,
                 got |-> Append(step.got,
                                ExternalValue(RunningExternals[step.at], r))]
    /\ blocked' = NotBlocked
    /\ pc' = "probe"
    /\ UNCHANGED <<args, result, heap, held, cache, tickVars, section,
                   app_config, sections_to_show, all_chosen, collectVars,
                   probed, active, output, paused, raised, interrupted,
                   exit_code>>

\* The command or the service answers before the timeout.
Respond ==
    /\ pc = "waiting"
    /\ blocked.timeout # None => blocked.elapsed < blocked.timeout[1]
    /\ \E r \in Responses : Resume(r)

\* A second passes while the collector waits.
TimePasses ==
    /\ pc = "waiting"
    /\ blocked.timeout # None
    /\ blocked.elapsed < blocked.timeout[1]
    /\ blocked' = [blocked EXCEPT !.elapsed = @ + 1]
    /\ UNCHANGED <<args, result, step, heap, held, cache, tickVars, pc,
                   section, app_config, sections_to_show, all_chosen,
                   collectVars, probed, active, output, paused, raised,
                   interrupted, exit_code>>

\* The timeout expires: TimeoutExpired in run_command, a requests exception
\* in _get_public_ip, both caught there.
TimeoutFires ==
    /\ pc = "waiting"
    /\ blocked.timeout # None
    /\ blocked.elapsed = blocked.timeout[1]
    /\ Resume("timeout")

\* The probe returns or raises; the try/except stores its value.
ProbeEnd ==
    /\ pc = "probe"
    /\ step.at > Len(RunningExternals)
    /\ \E outcome \in ProbeOutcomes :
         /\ outcome = "return" \/ nfail < MaxFail
         /\ data' = CollectOne(data, Running.section, outcome)
         /\ calls' = [calls EXCEPT ![Len(calls)].outcome = outcome]
         /\ nfail' = nfail + (IF outcome = "return" THEN 0 ELSE 1)
         /\ idx' = NextIndex(idx, Len(sections_to_show), outcome)
    /\ step' = NoStep
    /\ pc' = "loop"
    /\ UNCHANGED <<args, result, blocked, heap, held, cache, tickVars,
                   section, app_config, sections_to_show, all_chosen, probed,
                   active, output, paused, raised, interrupted, exit_code>>

\* return data.
BlockingReturn ==
    /\ pc = "loop"
    /\ idx > Len(sections_to_show)
    /\ pc' = "returned"
    /\ UNCHANGED <<args, result, callVars, collectVars, tickVars, section,
                   app_config, sections_to_show, all_chosen, probed, active,
                   output, paused, raised, interrupted, exit_code>>

InitBlocking ==
    /\ pc = "call_collect"
    /\ entry = "blocking"
    /\ section = <<>>
    /\ live = FALSE
    /\ output_mode = "display"
    /\ config_file = [kind |-> "missing"]
    /\ app_config = NoConfig
    /\ sections_to_show \in SeqsUpTo(Names, MaxLen)
    /\ InitCommon
    /\ call = [fn |-> "none"]
    /\ host \in BlockingHosts
    /\ result = NoResult

\* What the collector does by itself, and the clock.
CollectorStep ==
    \/ BeginCollect
    \/ ProbeStart
    \/ ExternalCall
    \/ TimePasses
    \/ TimeoutFires
    \/ ProbeEnd
    \/ BlockingReturn

NextBlocking ==
    \/ CollectorStep
    \/ Respond

\* The collector keeps running and time keeps passing; nothing makes a
\* command or a service answer.
SpecBlocking ==
    InitBlocking /\ [][NextBlocking]_vars /\ WF_vars(CollectorStep)

----------------------------------------------------------------------------
\* Claims about the collector's waiting and order, checked under SpecBlocking.

\* C23: collect_all_data returns for every request even when an external
\* command or the public address service never answers: each wait is cut off
\* by its timeout and the collector goes on.
C23_CollectAllDataTerminates == <>(pc = "returned")


\* The names of the list the loop has dealt with or is dealing with.
Visited ==
    LET upto == IF pc \in {"probe", "waiting"} THEN idx ELSE idx - 1
    IN  SubSeq(sections_to_show, 1, Min(upto, Len(sections_to_show)))

\* C24: the probes are invoked one after another in the order of the list: a
\* probe starts only when every probe before it has returned or raised, and
\* a probe that raised does not keep the later ones from being invoked.
C24_ProbesRunOneAfterAnother ==
    /\ \A i \in 1..(Len(calls) - 1) :
         /\ calls[i].outcome \in ProbeOutcomes
         /\ calls[i].at < calls[i + 1].at
    /\ \A i \in 1..Len(calls) : calls[i].section = sections_to_show[calls[i].at]
    /\ calls # <<>>
         => (calls[Len(calls)].outcome = "running" <=> pc \in {"probe", "waiting"})
    /\ pc \in {"loop", "probe", "waiting", "returned"}
         => Probed = Known(Visited)
    /\ pc = "returned" => Probed = Known(sections_to_show)

\* The first of two probes raised and the second was invoked and returned.
C24_Witness ==
    /\ pc = "returned"
    /\ Len(calls) = 2
    /\ calls[1].outcome # "return"
    /\ calls[2].outcome = "return"
    /\ calls[1].at < calls[2].at


----------------------------------------------------------------------------
\* Several calls of collect_all_data on one collector, the result mappings
\* as objects with an identity.

\* How many calls a caller makes on one collector.
MaxCalls == 2

\* Two sections are enough to tell the calls apart.
RepeatNames == {"system", "network"}
RepeatOutcomes == {"return", "CollectionError"}

\* data = {} creates a new mapping.
Allocation(ref, h) == [ref |-> ref, heap |-> h]

\* A collector that keeps one mapping and fills it again in every call.
NewMapping_Reused(h) ==
    IF h = <<>> THEN Allocation(1, <<EmptyMap>>) ELSE Allocation(1, h)

\* data = {}
NewMapping(h) == Allocation(Len(h) + 1, Append(h, EmptyMap))

\* The loop of collect_all_data on the mapping d, from the name at i on.
RECURSIVE Fill(_, _, _, _)
Fill(d, sections, outcomes, i) ==
    IF i > Len(sections)
      THEN d
      ELSE Fill(CollectOne(d, sections[i], outcomes[i]), sections, outcomes,
                i + 1)

\* A caller (main, or a tick of the live loop) calls collect_all_data and
\* keeps what it returned.
CallCollectAllData ==
    /\ pc = "idle"
    /\ Len(held) < MaxCalls
    /\ \E sections \in SeqsUpTo(RepeatNames, MaxLen) :
         \E outcomes \in [1..Len(sections) -> RepeatOutcomes] :
           LET new == NewMapping(heap)
               filled == Fill(new.heap[new.ref], sections, outcomes, 1)
           IN  /\ heap' = [new.heap EXCEPT ![new.ref] = filled]
               /\ held' = Append(held,
                                 [ref |-> new.ref, seen |-> filled,
                                  sections |-> sections,
                                  outcomes |-> outcomes,
                                  config |-> app_config, cache |-> cache])
    /\ UNCHANGED <<args, result, step, blocked, cache, tickVars, pc, section,
                   app_config, sections_to_show, all_chosen, collectVars,
                   probed, active, output, paused, raised, interrupted,
                   exit_code>>

InitRepeat ==
    /\ pc = "idle"
    /\ entry = "repeat"
    /\ section = <<>>
    /\ live = FALSE
    /\ output_mode = "display"
    /\ config_file = [kind |-> "missing"]
    /\ app_config \in {NoConfig, ConfigDefaults}
    /\ sections_to_show = <<>>
    /\ InitCommon
    /\ NoCall

NextRepeat == CallCollectAllData

SpecRepeat == InitRepeat /\ [][NextRepeat]_vars

----------------------------------------------------------------------------
\* Claims about repeated calls, checked under SpecRepeat.

\* The probe invocations of the call that returned h.
CallsOf(h) ==
    LET all == [i \in 1..Len(h.sections) |->
                  [section |-> h.sections[i], outcome |-> h.outcomes[i]]]
        HasProbe(c) == c.section \in section_collectors
    IN  SelectSeq(all, HasProbe)

----------------------------------------------------------------------------
\* Claims about GPU discovery and the rendering of its records.

\* A field that is a number: decimal digits only.
Numeric(f) == f # <<>> /\ \A i \in 1 .. Len(f) : f[i] \in DigitChars

\* The value of a field, null when the field is no number.
OrNull(f) == IF Numeric(f) THEN <<PyInt(IntOf(f))>> ELSE None

\* The lines of nvidia-smi's answer that have at least five fields.
RecordLines(smi) ==
    LET AtLeastFive(line) == Len(line) >= 5
    IN  IF smi.success THEN SelectSeq(smi.lines, AtLeastFive) ELSE <<>>

\* C26: GPU discovery returns GPUtil's list without running nvidia-smi when
\* GPUtil is there and does not raise; otherwise it runs nvidia-smi and makes
\* one record of every line with at least five fields, each field that is no
\* number null; with no data from either the list is empty; it never raises.
C26_GpuDiscoveryFirstStrategy ==
    (pc = "done" /\ call.fn = "_get_gpu_info")
        => /\ result.kind = "return"
           /\ host.GPUtil = "ok"
                => /\ result.value = GPUtilEntries(host.gpu_list)
                   /\ calls = <<>>
           /\ host.GPUtil # "ok"
                => /\ calls = <<"nvidia-smi">>
                   /\ Len(result.value) = Len(RecordLines(host.smi))
                   /\ \A k \in 1 .. Len(result.value) :
                        LET parts == RecordLines(host.smi)[k]
                            gpu == result.value[k]
                        IN  /\ gpu.memory.total = OrNull(parts[2])
                            /\ gpu.memory.used = OrNull(parts[3])
                            /\ gpu.temperature = OrNull(parts[4])
                            /\ gpu.load = OrNull(parts[5])


----------------------------------------------------------------------------
\* The renderers of display.py, called on what the probes return.

\* a / b for two Python numbers: ZeroDivisionError for a zero divisor, nan
\* when one of them is nan.
Quotient(a, b) ==
    IF b.kind # "nan" /\ b.num = 0 THEN ZeroDivisionError
    ELSE IF a.kind = "nan" \/ b.kind = "nan" THEN NaN
    ELSE Float(a.num * b.den, a.den * b.num)

\* f"{x}" for a number: an int in decimal, a float with its decimals (one
\* decimal is all the floats of this model need).
NumText(x) ==
    IF x.kind = "nan" THEN "nan"
    ELSE IF x.kind = "int" THEN ToString(x.num)
    ELSE IF x.num % x.den = 0 THEN ToString(x.num \div x.den) \o ".0"
    ELSE OneDecimal(x.num, x.den)

\* f"{x:.1f}"
Fixed1(x) == IF x.kind = "nan" THEN "nan" ELSE OneDecimal(x.num, x.den)

\* gpu.get("temperature") and gpu.get("load"): None or a number.
TemperatureOf(gpu) == gpu.temperature
LoadOf(gpu) == IF gpu.source = "GPUtil" THEN <<gpu.load>> ELSE gpu.load

\* isinstance(memory.get('total'), (int, float)) and the same for 'used'
HasMemoryNumbers(gpu) == gpu.memory.total # None /\ gpu.memory.used # None

\* The local memory_percent after the row of gpu: set when the record has
\* its memory numbers, else what an earlier row left.
MemoryPercent(gpu, local) ==
    IF HasMemoryNumbers(gpu)
      THEN <<Times(Quotient(gpu.memory.used[1], gpu.memory.total[1]), 100)>>
      ELSE local

\* The row gpu_table.add_row gets for gpu, percent the local memory_percent.
GpuRow(gpu, percent) ==
    [name |-> gpu.name,
     memory |-> IF HasMemoryNumbers(gpu)
                  THEN NumText(gpu.memory.used[1]) \o " MB / "
                          \o NumText(gpu.memory.total[1]) \o " MB ("
                          \o Fixed1(percent[1]) \o "%)"
                  ELSE "N/A",
     usage |-> IF percent # None THEN Fixed1(percent[1]) \o "%" ELSE "N/A",
     temperature |-> IF TemperatureOf(gpu) # None
                       THEN NumText(TemperatureOf(gpu)[1]) \o " C"
                       ELSE "N/A",
     load |-> IF LoadOf(gpu) # None THEN NumText(LoadOf(gpu)[1]) \o "%"
              ELSE "N/A"]

\* for gpu in gpus_data, from the record at i on: the rows, or the exception
\* of the division.
RECURSIVE GpuRows(_, _, _, _)
GpuRows(gpus, i, local, rows) ==
    IF i > Len(gpus) THEN Return(rows)
    ELSE LET percent == MemoryPercent(gpus[i], local) IN
         IF percent # None /\ percent[1].kind = "ZeroDivisionError"
           THEN Raise("ZeroDivisionError")
           ELSE GpuRows(gpus, i + 1, percent,
                        Append(rows, GpuRow(gpus[i], percent)))

\* The GPU table of _display_hardware_info.
_display_hardware_info(gpus) ==
    IF gpus = <<>> THEN Return(<<>>) ELSE GpuRows(gpus, 1, None, <<>>)

\* display_all for the hardware section: an exception of the renderer
\* becomes DisplayError.
DisplayHardware(gpus) ==
    LET r == _display_hardware_info(gpus)
    IN  IF r.kind = "return" THEN r ELSE Raise("DisplayError")

\* The hardware section with the GPU list the probe returns is displayed.
CallDisplayHardware ==
    /\ pc = "call"
    /\ call.fn = "_display_hardware_info"
    /\ result' = DisplayHardware(_get_gpu_info(host).value)
    /\ pc' = "done"
    /\ UNCHANGED <<args, runVars>>

\* The labels a sensor entry of psutil carries: none (the empty string) or
\* the label of the chip's input.
SensorLabels == {"", "Core 0"}

\* The entries psutil.sensors_temperatures() lists for a chip: label, degrees,
\* and the two limits, both None or both given.
TemperatureEntries ==
    [label : SensorLabels, current : {45, 85, 100},
     high : {None}, critical : {None}]
    \cup [label : SensorLabels, current : {45, 85, 100},
          high : {<<80>>}, critical : {<<100>>}]

\* The entries psutil.sensors_fans() lists for a chip: label and rpm.
FanEntries == [label : SensorLabels, current : {1200}]

\* The sensors of the host: psutil has no sensor functions, they raise, or
\* they list the entries of one chip (no chip when there is no entry),
\* temperatures or fans.
SensorHosts ==
    [kind : {"sensors"}, psutil : {"missing", "raises"},
     temperatures : {<<>>}, fans : {<<>>}]
    \cup [kind : {"sensors"}, psutil : {"ok"},
          temperatures : SeqsUpTo(TemperatureEntries, MaxDevices),
          fans : {<<>>}]
    \cup [kind : {"sensors"}, psutil : {"ok"},
          temperatures : {<<>>},
          fans : SeqsUpTo(FanEntries, MaxDevices)]

\* entry.label or "N/A"
LabelOf(label) == IF label = "" THEN "N/A" ELSE label

\* The mapping with the readings of the host's one chip.
ChipMap(chip, readings) ==
    IF readings = <<>> THEN EmptyMap ELSE Put(EmptyMap, chip, readings)

\* _get_temperature_sensors()
_get_temperature_sensors(h) ==
    IF h.psutil # "ok" THEN EmptyMap
    ELSE ChipMap("coretemp",
                 [i \in 1 .. Len(h.temperatures) |->
                    [label |-> LabelOf(h.temperatures[i].label),
                     current |-> h.temperatures[i].current,
                     high |-> h.temperatures[i].high,
                     critical |-> h.temperatures[i].critical]])

\* _get_fan_sensors()
_get_fan_sensors(h) ==
    IF h.psutil # "ok" THEN EmptyMap
    ELSE ChipMap("thinkpad",
                 [i \in 1 .. Len(h.fans) |->
                    [label |-> LabelOf(h.fans[i].label),
                     current |-> h.fans[i].current]])

\* collect_sensor_info(), without the battery.
collect_sensor_info(h) ==
    [temperature |-> _get_temperature_sensors(h), fans |-> _get_fan_sensors(h)]

\* The status of a temperature reading.
TemperatureStatus(reading) ==
    IF reading.critical # None /\ reading.critical[1] # 0
          /\ reading.current >= reading.critical[1] THEN "Critical"
    ELSE IF reading.high # None /\ reading.high[1] # 0
          /\ reading.current >= reading.high[1] THEN "High"
    ELSE IF reading.current >= 70 THEN "Warm"
    ELSE "Normal"

\* limits_text
LimitsText(reading) ==
    (IF reading.high # None /\ reading.high[1] # 0
       THEN "H:" \o ToString(reading.high[1]) \o " C" ELSE "N/A")
    \o (IF reading.critical # None /\ reading.critical[1] # 0
          THEN " C:" \o ToString(reading.critical[1]) \o " C" ELSE "")

\* The rows of the temperature table and of the fan table: the label column
\* is reading.get("label", "N/A"), the key's value when the key is there.
TemperatureRows(temperatures) ==
    IF temperatures = EmptyMap THEN <<>>
    ELSE [i \in 1 .. Len(temperatures["coretemp"]) |->
            LET reading == temperatures["coretemp"][i]
            IN  [sensor |-> "coretemp", label |-> reading.label,
                 status |-> TemperatureStatus(reading),
                 limits |-> LimitsText(reading)]]

FanRows(fans) ==
    IF fans = EmptyMap THEN <<>>
    ELSE [i \in 1 .. Len(fans["thinkpad"]) |->
            [sensor |-> "thinkpad", label |-> fans["thinkpad"][i].label,
             speed |-> ToString(fans["thinkpad"][i].current) \o " RPM"]]

\* _display_sensor_info(data): the rows of its two tables.
_display_sensor_info(d) ==
    [temperature |-> TemperatureRows(d.temperature), fans |-> FanRows(d.fans)]

\* The sensors are collected and the section is displayed: the record and
\* the rows.
CallDisplaySensors ==
    /\ pc = "call"
    /\ call.fn = "_display_sensor_info"
    /\ LET d == collect_sensor_info(host)
       IN  result' = Return([data |-> d, rows |-> _display_sensor_info(d)])
    /\ pc' = "done"
    /\ UNCHANGED <<args, runVars>>

\* The processes the table shows, and the processes the live panel shows.
TableRows == 20
PanelRows == 5

\* proc.get(key, 0) or 0
OrZero(percent) == IF percent = None THEN <<0>> ELSE percent

\* proc.get(key, 0): the value of a key that is there, None included.
GetOrZero(percent) == percent

\* f"{percent:.1f}%"
PercentText(percent) == OneDecimal(percent[1], 1) \o "%"

\* The rows of the process table of _display_process_info.
ProcessRows(processes) ==
    [i \in 1 .. Min(Len(processes), TableRows) |->
        [name |-> processes[i].name,
         cpu |-> PercentText(OrZero(processes[i].cpu_percent)),
         memory |-> PercentText(OrZero(processes[i].memory_percent)),
         status |-> processes[i].status]]

\* _display_process_info(data)
_display_process_info(d) == Return(ProcessRows(d.processes))

\* The lines of the live panel for the first processes; formatting None with
\* .1f raises TypeError.
_create_live_processes_panel(d) ==
    LET shown == SubSeq(d.processes, 1, Min(Len(d.processes), PanelRows))
    IN  IF \E i \in 1 .. Len(shown) : GetOrZero(shown[i].cpu_percent) = None
          THEN Raise("TypeError")
          ELSE Return([i \in 1 .. Len(shown) |->
                         [name |-> shown[i].name,
                          cpu |-> PercentText(GetOrZero(shown[i].cpu_percent))]])

\* The value of the processes section is rendered by renderer fn: the error
\* panel for a section that could not be collected, else the renderer.
RenderProcesses(fn, section_value) ==
    IF section_value.kind # "return"
      THEN Return(<<[name |-> "error", cpu |-> "", memory |-> "",
                     status |-> section_value.type]>>)
    ELSE IF fn = "_display_process_info"
      THEN _display_process_info(section_value.value)
    ELSE _create_live_processes_panel(section_value.value)

\* The processes are collected and rendered, by the table or, in a live
\* tick, by the panel.
CallDisplayProcesses ==
    /\ pc = "call"
    /\ call.fn \in {"_display_process_info", "_create_live_processes_panel"}
    /\ result' = RenderProcesses(call.fn,
                                 collect_process_info(call.config, host))
    /\ pc' = "done"
    /\ UNCHANGED <<args, runVars>>

\* What the firewall command prints when it runs: ufw's two answers and
\* pfctl's.
FirewallTexts == {"Status: active", "Status: inactive", "Status: Enabled"}

\* "active" in stdout.lower(): "inactive" contains it as well.
HasActive(stdout) == stdout \in {"Status: active", "Status: inactive"}

\* "enabled" in stdout.lower()
HasEnabled(stdout) == stdout = "Status: Enabled"

\* The security facilities of the host: platform.system(), what the firewall
\* command and the privilege command do, and the listening ports.
SecurityHosts ==
    [kind : {"security"}, system : {"Linux", "Darwin", "Windows"},
     firewall : [success : BOOLEAN, stdout : FirewallTexts],
     admin : SubprocessOutcomes,
     open_ports : {<<>>, <<22>>}]

\* _get_firewall_status()
_get_firewall_status(h) ==
    IF h.system = "Linux" /\ h.firewall.success
      THEN [status |-> IF HasActive(h.firewall.stdout) THEN "active"
                       ELSE "inactive",
            details |-> "ufw detected"]
    ELSE IF h.system = "Darwin" /\ h.firewall.success
      THEN [status |-> IF HasEnabled(h.firewall.stdout) THEN "active"
                       ELSE "inactive",
            details |-> "pfctl detected"]
    ELSE [status |-> "unknown", details |-> "Unable to determine"]

\* _check_admin_privileges(): the success of `net session` on Windows, of
\* `sudo -n true` elsewhere.
_check_admin_privileges(h) == run_command(h.admin).value.success

\* The key the security probe stores the privilege value under.
AdminKey == "admin_privileges"

\* collect_security_info(): a mapping from its keys to their values, each
\* value with its type.
collect_security_info(h) ==
    Put(Put(Put(EmptyMap,
                "firewall", [type |-> "dict", value |-> _get_firewall_status(h)]),
            "open_ports", [type |-> "list", value |-> h.open_ports]),
        AdminKey, [type |-> "bool", value |-> _check_admin_privileges(h)])

\* data.get(key, default)
Get(d, key, default) == IF key \in DOMAIN d THEN d[key].value ELSE default

\* The rows of the security table.
_display_security_info(d) ==
    LET firewall_status ==
            Get(d, "firewall", [status |-> "unknown", details |-> ""]).status
        open_ports == Get(d, "open_ports", <<>>)
        sudo_access == Get(d, "sudo_access", FALSE)
    IN  [firewall |-> CASE firewall_status = "active" -> "Active"
                        [] firewall_status = "inactive" -> "Inactive"
                        [] OTHER -> "Unknown",
         ports |-> IF Len(open_ports) = 0 THEN "None Open"
                   ELSE ToString(Len(open_ports)) \o " Open",
         sudo |-> IF sudo_access THEN "Enabled" ELSE "Restricted",
         sudo_detail |-> IF sudo_access
                           THEN "Administrative privileges available"
                           ELSE "Standard user permissions"]

\* The security section is collected and displayed: the mapping and the rows.
CallDisplaySecurity ==
    /\ pc = "call"
    /\ call.fn = "_display_security_info"
    /\ LET d == collect_security_info(host)
       IN  result' = Return([data |-> d, rows |-> _display_security_info(d)])
    /\ pc' = "done"
    /\ UNCHANGED <<args, runVars>>

\* The calls of the renderers, each with the host the probe ran on.
RenderCalls ==
    { [call |-> [fn |-> "_display_hardware_info"], host |-> h] :
        h \in GpuHosts }
    \cup { [call |-> [fn |-> "_display_sensor_info"], host |-> h] :
             h \in SensorHosts }
    \cup { [call |-> [fn |-> f, config |-> c], host |-> h] :
             f \in {"_display_process_info", "_create_live_processes_panel"},
             c \in ProbeConfigs, h \in ProcessTables }
    \cup { [call |-> [fn |-> "_display_security_info"], host |-> h] :
             h \in SecurityHosts }

InitRender ==
    /\ InitCall
    /\ \E c \in RenderCalls : call = c.call /\ host = c.host

NextRender ==
    \/ CallDisplayHardware
    \/ CallDisplaySensors
    \/ CallDisplayProcesses
    \/ CallDisplaySecurity

SpecRender == InitRender /\ [][NextRender]_vars

----------------------------------------------------------------------------
\* Claims about the renderers, checked under SpecRender.

\* C30: the hardware section is rendered without an exception for every list
\* of GPU records the probe returns, also for a record whose memory total is
\* 0: no division fails and display_all raises no DisplayError.
C30_HardwareRenderingNeverRaises ==
    (pc = "done" /\ call.fn = "_display_hardware_info")
        => result.kind = "return"



\* The readings of the one chip in a mapping the sensors probe returned.
ReadingsOf(m) == IF m = EmptyMap THEN <<>> ELSE m[CHOOSE k \in DOMAIN m : TRUE]

\* C27: the sensors probe stores the label of every temperature and fan
\* reading as the host reports it, an empty label staying empty; "N/A" for
\* an empty label appears in the rendered row only.
C27_LabelsStoredAsReported ==
    (pc = "done" /\ call.fn = "_display_sensor_info" /\ host.psutil = "ok")
        => LET d == result.value.data
               rows == result.value.rows
           IN  /\ Len(ReadingsOf(d.temperature)) = Len(host.temperatures)
               /\ Len(ReadingsOf(d.fans)) = Len(host.fans)
               /\ \A i \in 1 .. Len(host.temperatures) :
                    /\ ReadingsOf(d.temperature)[i].label
                          = host.temperatures[i].label
                    /\ rows.temperature[i].label
                          = LabelOf(host.temperatures[i].label)
               /\ \A i \in 1 .. Len(host.fans) :
                    /\ ReadingsOf(d.fans)[i].label = host.fans[i].label
                    /\ rows.fans[i].label = LabelOf(host.fans[i].label)


\* The processes the probe of the call returned.
Collected == collect_process_info(call.config, host).value.processes

\* C28: the process table and the live process panel both render a process
\* whose cpu percent or memory percent is null as 0, so neither raises.
C28_NullPercentRendersAsZero ==
    (pc = "done"
        /\ call.fn \in {"_display_process_info", "_create_live_processes_panel"})
        => /\ result.kind = "return"
           /\ \A i \in 1 .. Len(result.value) :
                /\ Collected[i].cpu_percent = None
                     => result.value[i].cpu = "0.0%"
                /\ (call.fn = "_display_process_info"
                      /\ Collected[i].memory_percent = None)
                     => result.value[i].memory = "0.0%"


\* C29: the security table reports the privilege value the probe collected:
\* privileges available when the probe found them, restricted when it found
\* none.
C29_PrivilegeRowShowsCollectedValue ==
    (pc = "done" /\ call.fn = "_display_security_info")
        => LET collected == _check_admin_privileges(host)
               rows == result.value.rows
           IN  /\ collected
                    => /\ rows.sudo = "Enabled"
                       /\ rows.sudo_detail = "Administrative privileges available"
               /\ ~collected => rows.sudo = "Restricted"

====
